---- MODULE Spec2Model ----
(***************************************************************************)
(* Container auto-update task (runContainerUpdate, recreateContainer,      *)
(* updateStackContainer) and the self-update hand-off endpoint, modelled   *)
(* as state machines over the container engine's tags and containers.      *)
(* Every await of the source is one step; a collaborator call either       *)
(* returns or throws, chosen nondeterministically.                         *)
(***************************************************************************)
EXTENDS Integers, Sequences, FiniteSets, TLC

VARIABLES
    run,        \* per update run: position, inputs read so far, ledger, history
    prodTag,    \* image id the production tag repo:tag resolves to
    tempTag,    \* image id the temp tag resolves to, or "none"
    approved,   \* image ids for which the vulnerability gate returned allowed
    su,         \* the self-update request handler (POST) and the local engine
    chk,        \* the self-update check handler (GET)
    sse         \* the Docker events endpoint (GET) and its response stream

vars == <<run, prodTag, tempTag, approved, su, chk, sse>>

(***************************************************************************)
(* Bounds of the model                                                     *)
(***************************************************************************)
MaxNets == 2     \* secondary networks of a recreated container
MaxVuln == 1     \* vulnerabilities per severity tier in a scan summary

Runs == {"r1", "r2"}

\* Image ids: the image the containers run (known good) and the registry's.
OldImage == "imgOld"
NewImage == "imgNew"

Criteria == {"never", "any", "critical_high", "critical", "more_than_current"}
Summaries == [critical : 0..MaxVuln, high : 0..MaxVuln]
NoSummary == [critical |-> -1, high |-> -1]

(***************************************************************************)
(* Engine primitives (lib/server/docker, not part of the traced sources)   *)
(***************************************************************************)
\* pullImage(repo:tag): the production tag now resolves to the registry image.
PullImage(tag) == NewImage

\* tagImage(id, repo, tag): the tag is re-pointed to id.
TagImage(id) == id

\* getImageIdByTag(repo:tag): the id the tag resolves to right now.
GetImageIdByTag(tag) == tag

(***************************************************************************)
(* Vulnerability gate (update-utils.shouldBlockUpdate)                     *)
(***************************************************************************)
Total(s) == s.critical + s.high

ShouldBlockUpdate(criteria, summary, current) ==
    CASE criteria = "never" -> FALSE
      [] criteria = "any" -> Total(summary) > 0
      [] criteria = "critical_high" -> summary.critical > 0 \/ summary.high > 0
      [] criteria = "critical" -> summary.critical > 0
      [] criteria = "more_than_current" ->
            current # NoSummary /\ Total(summary) > Total(current)

(***************************************************************************)
(* The execution ledger                                                    *)
(***************************************************************************)
\* updateScheduleExecution(execution.id, {status, completedAt, ...})
Complete(rec, st, why) ==
    [rec EXCEPT !.status = st, !.reason = why, !.writes = @ + 1, !.pc = "done"]

\* the same write, the function going on afterwards at position next
CompleteAt(rec, st, why, next) ==
    [Complete(rec, st, why) EXCEPT !.pc = next]

\* names are sequences of characters
ServiceName == <<"w", "e", "b">>
ProjectName == <<"a", "p", "p">>
OtherAlias == <<"d", "b">>

\* container.id, and the length of the short id
ContainerId == [i \in 1..64 |-> "c"]
ShortIdLen == 12
Substring(str, start, end) == SubSeq(str, start + 1, end)

\* the compose labels of the inspected container
NoCompose == [project |-> <<>>, service |-> <<>>]
ComposeLabels == [project |-> ProjectName, service |-> ServiceName]

\* Aliases and DNSNames of a network attachment, and the compose labels
NetMeta(aliases, dnsNames, compose) ==
    [aliases |-> aliases, dnsNames |-> dnsNames, compose |-> compose]

PlainMeta == NetMeta(<<>>, <<>>, NoCompose)

\* network names: 'host', 'default', 'bridge', and the user-defined 1, 2, ...
HostNet == -2
DefaultNet == -1
BridgeNet == 0

IdleRun ==
    [pc |-> "idle", status |-> "none", reason |-> "none", writes |-> 0,
     thrownAt |-> "none", path |-> "none", imageKind |-> "unknown",
     isStack |-> FALSE, shouldScan |-> FALSE, criteria |-> "never",
     currentImageId |-> "none", newImageId |-> "none",
     scanSummary |-> NoSummary, currentScanSummary |-> NoSummary,
     gate |-> "none", promoted |-> FALSE, calls |-> {}, trace |-> <<>>,
     wasRunning |-> FALSE, oldC |-> "running", oldC0 |-> "running",
     newC |-> "absent",
     nets |-> 0, netIdx |-> 0, rcResult |-> "none", rcFailedAt |-> "none",
     prodBefore |-> "none", escaped |-> FALSE, stackDef |-> "none",
     connected |-> {}, warned |-> {}, registryChecks |-> 0, pulls |-> 0,
     registry |-> "none", fallbackWarned |-> FALSE, stackResult |-> "none",
     tempMade |-> FALSE, removal |-> "none",
     cacheLookup |-> "none", currentScanned |-> FALSE,
     netMeta |-> PlainMeta, secondaryAliases |-> <<>>, metaIn |-> {PlainMeta},
     networkMode |-> BridgeNet, attached |-> {},
     netNames |-> <<>>, primaryNets |-> {},
     criteriaIn |-> Criteria, summariesIn |-> Summaries, netsIn |-> MaxNets]

OffRun == [IdleRun EXCEPT !.pc = "off"]

At(r, p) == run[r].pc = p

Set(r, rec) == run' = [run EXCEPT ![r] = rec]

EngineSame == UNCHANGED <<prodTag, tempTag, approved>>

\* the self-update handler before a request arrives; the inputs of the request
\* and of the environment are fixed when the request is made
IdleSelf ==
    [pc |-> "off", authEnabled |-> FALSE, isAdmin |-> FALSE, hasImage |-> FALSE,
     inDocker |-> FALSE, writable |-> FALSE, hasName |-> FALSE,
     response |-> "none", calls |-> {}, sent |-> <<>>, events |-> <<>>,
     connected |-> TRUE, controllerClosed |-> FALSE, streamClosed |-> FALSE,
     newContainerId |-> "none", replacement |-> "absent", helper |-> "absent",
     failed |-> FALSE, removeAttempted |-> FALSE, removeOk |-> FALSE,
     priorHelper |-> "absent", priorReplacement |-> "absent", notPulled |-> {},
     networks |-> <<>>, networkEnvVars |-> <<>>, updaterEnv |-> <<>>,
     binds |-> <<>>, mounts |-> <<>>,
     inspectData |-> [config |-> {}, networkMode |-> "none", binds |-> <<>>,
                      mounts |-> <<>>],
     createConfig |-> [keys |-> {}, fields |-> {}, networkMode |-> "none",
                       binds |-> <<>>]]

\* the self-update check handler before a request arrives
IdleCheck ==
    [pc |-> "off", authEnabled |-> FALSE, isAdmin |-> FALSE, inDocker |-> FALSE,
     image |-> "tag", response |-> "none", updateAvailable |-> FALSE,
     error |-> "none", calls |-> {}, registryQueries |-> 0,
     body |-> {}, repoDigests |-> <<>>, registryDigest |-> "none"]

(***************************************************************************)
(* runContainerUpdate: from the execution record to the registry check     *)
(***************************************************************************)
\* the step at which the run's first exception was thrown
Throw(rec, step) ==
    IF rec.thrownAt = "none" THEN [rec EXCEPT !.thrownAt = step] ELSE rec

\* mutant: the outer catch rethrows instead of recording the failure
OuterCatchRethrow(rec, step) ==
    [Throw(rec, step) EXCEPT !.pc = "done", !.escaped = TRUE]

\* An exception reaching the outer catch: status 'failed' is written, then the
\* failure notification is sent.
OuterCatch(rec, step) ==
    CompleteAt(Throw(rec, step), "failed", "error", "notifyFailed")

\* createScheduleExecution({status: 'running'}) and the startedAt write
Begin(r) ==
    /\ At(r, "idle")
    /\ Set(r, [run[r] EXCEPT !.pc = "list", !.status = "running",
                              !.prodBefore = prodTag])
    /\ EngineSame /\ UNCHANGED <<su, chk, sse>>

\* listContainers(true, envId) and containers.find(c => c.name === containerName)
ListContainers(r) ==
    /\ At(r, "list")
    /\ \/ Set(r, OuterCatch(run[r], "list"))
       \/ /\ run[r].oldC = "absent"
          /\ Set(r, Complete(run[r], "failed", "notfound"))
       \/ /\ run[r].oldC # "absent"
          /\ Set(r, [run[r] EXCEPT !.pc = "inspect"])
    /\ EngineSame /\ UNCHANGED <<su, chk, sse>>

\* Config.Image: missing; a Dockhand/Hawser image by tag or by digest; any
\* other image by digest or by tag
ImageKinds == {"noname", "system", "systemDigest", "digest", "tag"}

\* isSystemContainer(imageNameFromConfig)
IsSystemContainer(kind) == kind \in {"system", "systemDigest"}

\* isDigestBasedImage(imageNameFromConfig): the reference holds @sha256:
IsDigestBasedImage(kind) == kind \in {"digest", "systemDigest"}

\* mutant: the guard for system containers is missing
ImageGuardNoSystem(kind) ==
    CASE kind = "noname" -> <<"failed", "noimage">>
      [] IsDigestBasedImage(kind) -> <<"skipped", "digest">>
      [] OTHER -> <<"go", "none">>

\* the guards on Config.Image, in the order of the code: missing name, system
\* container, digest-pinned
ImageGuard(kind) ==
    CASE kind = "noname" -> <<"failed", "noimage">>
      [] IsSystemContainer(kind) -> <<"skipped", "system">>
      [] IsDigestBasedImage(kind) -> <<"skipped", "digest">>
      [] OTHER -> <<"go", "none">>

\* inspectContainer(container.id) and the guards that follow it
InspectContainer(r) ==
    /\ At(r, "inspect")
    /\ \/ Set(r, OuterCatch(run[r], "inspect"))
       \/ \E kind \in ImageKinds, stack \in BOOLEAN :
             LET g == ImageGuard(kind)
                 rec == [run[r] EXCEPT !.imageKind = kind]
             IN  IF g[1] = "go"
                 THEN Set(r, [rec EXCEPT !.pc = "settings",
                                         !.currentImageId = OldImage,
                                         !.isStack = stack])
                 ELSE /\ stack = FALSE
                      /\ Set(r, Complete(rec, g[1], g[2]))
    /\ EngineSame /\ UNCHANGED <<su, chk, sse>>

\* getScannerSettings / getAutoUpdateSettingById; shouldScan = scanner !== 'none'
GetSettings(r) ==
    /\ At(r, "settings")
    /\ \/ Set(r, OuterCatch(run[r], "settings"))
       \/ Set(r, [run[r] EXCEPT !.pc = "registry", !.shouldScan = FALSE])
       \/ \E c \in run[r].criteriaIn :
             Set(r, [run[r] EXCEPT !.pc = "registry", !.shouldScan = TRUE,
                                   !.criteria = c])
    /\ EngineSame /\ UNCHANGED <<su, chk, sse>>

RegistryResults == {"local", "error", "uptodate", "update"}

\* mutant: a registry error fails the run instead of skipping it
RegistryOutcomeErrorFails(res) ==
    CASE res = "local" -> <<"skipped", "local">>
      [] res = "error" -> <<"failed", "registryError">>
      [] res = "uptodate" -> <<"skipped", "uptodate">>
      [] OTHER -> <<"go", "none">>

\* what the run does with the result of checkImageUpdateAvailable
RegistryOutcome(res) ==
    CASE res = "local" -> <<"skipped", "local">>
      [] res = "error" -> <<"skipped", "registryError">>
      [] res = "uptodate" -> <<"skipped", "uptodate">>
      [] OTHER -> <<"go", "none">>

\* if (shouldScan) safe pull else simple pull
PullPath(shouldScan) == IF shouldScan THEN "safe" ELSE "simple"

\* checkImageUpdateAvailable(imageNameFromConfig, currentImageId, envId)
RegistryCheck(r) ==
    /\ At(r, "registry")
    /\ LET rec == [run[r] EXCEPT !.registryChecks = @ + 1]
       IN  \/ Set(r, OuterCatch(rec, "registry"))
           \/ \E res \in RegistryResults :
                 LET o == RegistryOutcome(res)
                     p == PullPath(rec.shouldScan)
                 IN  IF o[1] = "go"
                     THEN Set(r, [rec EXCEPT !.path = p, !.registry = res,
                            !.pc = IF p = "safe" THEN "pull" ELSE "simplePull"])
                     ELSE Set(r, Complete([rec EXCEPT !.registry = res],
                                          o[1], o[2]))
    /\ EngineSame /\ UNCHANGED <<su, chk, sse>>

(***************************************************************************)
(* runContainerUpdate, step 2: safe pull with temp tag protection          *)
(***************************************************************************)
\* mutant: catch (pullError) returns without writing a status
PullCatchNoWrite(rec, step) == [Throw(rec, step) EXCEPT !.pc = "done"]

\* catch (pullError): status 'failed', "Failed to pull image", return
PullCatch(rec, step) == Complete(Throw(rec, step), "failed", "pullFailed")

\* catch (scanError): the temp image is removed next, then 'failed' is written
ScanCatch(rec, step) == [Throw(rec, step) EXCEPT !.pc = "scanFail"]

\* removeTempImage(ref): the temp tag is dropped when it names that image
RemoveTempImage(ref, temp) == IF temp = ref THEN "none" ELSE temp

\* Step 2a: pullImage(imageNameFromConfig) overwrites the production tag
SafePull(r) ==
    /\ At(r, "pull")
    /\ LET rec == [run[r] EXCEPT !.pulls = @ + 1]
       IN  \/ /\ prodTag' = PullImage(prodTag)
              /\ Set(r, [rec EXCEPT !.pc = "getId"])
           \/ /\ Set(r, PullCatch(rec, "pull"))
              /\ UNCHANGED prodTag
    /\ UNCHANGED <<tempTag, approved, su, chk, sse>>

\* Step 2b: newImageId = getImageIdByTag(imageNameFromConfig); null throws
GetNewImageId(r) ==
    /\ At(r, "getId")
    /\ \/ Set(r, [run[r] EXCEPT !.pc = "restore",
                                 !.newImageId = GetImageIdByTag(prodTag)])
       \/ Set(r, PullCatch(run[r], "getId"))
    /\ EngineSame /\ UNCHANGED <<su, chk, sse>>

\* the image the production tag is restored to in step 2c
RestoreTarget(rec) == rec.currentImageId

\* Step 2c: tagImage(currentImageId, oldRepo, oldTag)
RestoreTag(r) ==
    /\ At(r, "restore")
    /\ \/ /\ prodTag' = TagImage(RestoreTarget(run[r]))
          /\ Set(r, [run[r] EXCEPT !.pc = "tempTag"])
       \/ /\ Set(r, PullCatch(run[r], "restore"))
          /\ UNCHANGED prodTag
    /\ UNCHANGED <<tempTag, approved, su, chk, sse>>

\* Step 2d: tagImage(newImageId, tempRepo, tempTagName)
TagTemp(r) ==
    /\ At(r, "tempTag")
    /\ \/ /\ tempTag' = TagImage(run[r].newImageId)
          /\ Set(r, [run[r] EXCEPT !.pc = "scan", !.tempMade = TRUE])
       \/ /\ Set(r, PullCatch(run[r], "tempTag"))
          /\ UNCHANGED tempTag
    /\ UNCHANGED <<prodTag, approved, su, chk, sse>>

\* where the run goes when scanImage returned no results: past the gate
AfterEmptyScan == "promote"

\* mutant: the current image's summary is fetched for every criterion
AfterScanAlwaysCurrent(criteria) == "cache"

\* where the run goes with a scan summary in hand
AfterScan(criteria) == IF criteria = "more_than_current" THEN "cache" ELSE "gate"

\* Step 2e: scanImage(tempTag); saving the results never fails the run
ScanNew(r) ==
    /\ At(r, "scan")
    /\ \/ Set(r, ScanCatch(run[r], "scan"))
       \/ Set(r, [run[r] EXCEPT !.pc = AfterEmptyScan])
       \/ \E s \in run[r].summariesIn :
             Set(r, [run[r] EXCEPT !.pc = AfterScan(run[r].criteria),
                                   !.scanSummary = s])
    /\ EngineSame /\ UNCHANGED <<su, chk, sse>>

\* getCombinedScanForImage(currentImageId): cached summary, none, or an error
LookupCurrentScan(r) ==
    /\ At(r, "cache")
    /\ \/ \E c \in run[r].summariesIn :
             Set(r, [run[r] EXCEPT !.pc = "gate", !.currentScanSummary = c,
                                   !.cacheLookup = "hit"])
       \/ Set(r, [run[r] EXCEPT !.pc = "scanCurrent", !.cacheLookup = "miss"])
       \/ Set(r, [run[r] EXCEPT !.pc = "gate", !.cacheLookup = "error"])
    /\ EngineSame /\ UNCHANGED <<su, chk, sse>>

\* scanImage(currentImageId): a summary, no results, or an error (caught)
ScanCurrent(r) ==
    /\ At(r, "scanCurrent")
    /\ LET rec == [run[r] EXCEPT !.currentScanned = TRUE]
       IN  \/ \E c \in rec.summariesIn :
                 Set(r, [rec EXCEPT !.pc = "gate", !.currentScanSummary = c])
           \/ Set(r, [rec EXCEPT !.pc = "gate"])
    /\ EngineSame /\ UNCHANGED <<su, chk, sse>>

\* if (blocked) step 2f else fall out of the scan block to step 2g
AfterGate(blocked) == IF blocked THEN "removeBlocked" ELSE "promote"

\* mutant: once some image was approved, the criterion is no longer applied
GateInputsAfterApproval(rec) ==
    <<IF approved # {} THEN "never" ELSE rec.criteria, rec.scanSummary,
      rec.currentScanSummary>>

\* the arguments handed to shouldBlockUpdate: locals of the run only
GateInputs(rec) == <<rec.criteria, rec.scanSummary, rec.currentScanSummary>>

\* shouldBlockUpdate(vulnerabilityCriteria, scanSummary, currentScanSummary)
Gate(r) ==
    /\ At(r, "gate")
    /\ LET in == GateInputs(run[r])
           blocked == ShouldBlockUpdate(in[1], in[2], in[3])
       IN  /\ Set(r, [run[r] EXCEPT !.pc = AfterGate(blocked),
                         !.gate = IF blocked THEN "blocked" ELSE "allowed"])
           /\ approved' = IF blocked THEN approved
                                     ELSE approved \cup {run[r].newImageId}
    /\ UNCHANGED <<prodTag, tempTag, su, chk, sse>>

\* Step 2f: removeTempImage(newImageId), then status 'skipped' is written
RemoveBlocked(r) ==
    /\ At(r, "removeBlocked")
    /\ \/ /\ tempTag' = RemoveTempImage(run[r].newImageId, tempTag)
          /\ Set(r, CompleteAt([run[r] EXCEPT !.removal = "ok"],
                                "skipped", "blocked", "notifyBlocked"))
       \/ /\ Set(r, ScanCatch([run[r] EXCEPT !.removal = "failed"],
                               "removeBlocked"))
          /\ UNCHANGED tempTag
    /\ UNCHANGED <<prodTag, approved, su, chk, sse>>

\* mutant: the blocked branch does not return and falls through to promotion
AfterBlockedNoReturn == "promote"

\* the return that ends the blocked branch
AfterBlocked == "done"

\* sendEventNotification('auto_update_blocked'), inside the scan try block
NotifyBlocked(r) ==
    /\ At(r, "notifyBlocked")
    /\ \/ Set(r, [run[r] EXCEPT !.pc = AfterBlocked])
       \/ Set(r, ScanCatch(run[r], "notifyBlocked"))
    /\ EngineSame /\ UNCHANGED <<su, chk, sse>>

\* catch (scanError): removeTempImage(newImageId), then status 'failed'
ScanFail(r) ==
    /\ At(r, "scanFail")
    /\ \/ /\ tempTag' = RemoveTempImage(run[r].newImageId, tempTag)
          /\ Set(r, Complete([run[r] EXCEPT !.removal = "ok"],
                              "failed", "scanFailed"))
       \/ /\ Set(r, PullCatch([run[r] EXCEPT !.removal = "failed"],
                               "removeTemp"))
          /\ UNCHANGED tempTag
    /\ UNCHANGED <<prodTag, approved, su, chk, sse>>

\* Step 2g: tagImage(newImageId, oldRepo, oldTag)
Promote(r) ==
    /\ At(r, "promote")
    /\ \/ /\ prodTag' = TagImage(run[r].newImageId)
          /\ Set(r, [run[r] EXCEPT !.pc = "cleanupTemp", !.promoted = TRUE])
       \/ /\ Set(r, PullCatch(run[r], "promote"))
          /\ UNCHANGED prodTag
    /\ UNCHANGED <<tempTag, approved, su, chk, sse>>

\* if (isStackContainer) updateStackContainer(...) else recreateContainer(...)
Router(isStack) == IF isStack THEN "stackLookup" ELSE "rcList"

\* removeTempImage(tempTag) after promotion; its errors are ignored
CleanupTemp(r) ==
    /\ At(r, "cleanupTemp")
    /\ \/ /\ tempTag' = "none"
          /\ Set(r, [run[r] EXCEPT !.pc = Router(run[r].isStack),
                                   !.removal = "ok"])
       \/ /\ UNCHANGED tempTag
          /\ Set(r, [run[r] EXCEPT !.pc = Router(run[r].isStack),
                                   !.removal = "failed"])
    /\ UNCHANGED <<prodTag, approved, su, chk, sse>>

\* Step 3: pullImage without scanning
SimplePull(r) ==
    /\ At(r, "simplePull")
    /\ LET rec == [run[r] EXCEPT !.pulls = @ + 1]
       IN  \/ /\ prodTag' = PullImage(prodTag)
              /\ Set(r, [rec EXCEPT !.pc = Router(rec.isStack)])
           \/ /\ Set(r, Complete(Throw(rec, "pull"), "failed", "pullFailed"))
              /\ UNCHANGED prodTag
    /\ UNCHANGED <<tempTag, approved, su, chk, sse>>

(***************************************************************************)
(* runContainerUpdate: the update itself and the final status              *)
(***************************************************************************)
Mutating == {"stop", "remove", "create", "connect", "start", "startStack"}

\* one engine call issued by the run
Call(rec, op, net) ==
    [rec EXCEPT !.trace = Append(@, [op |-> op, net |-> net]),
                !.calls = IF op \in Mutating THEN @ \cup {op} ELSE @]

\* if (success): updateAutoUpdateLastUpdated, status 'success', notification
Succeed(rec) == CompleteAt(rec, "success", "success", "notifySuccess")

\* else throw new Error('Failed to recreate container'), caught by the outer catch
RecreateFailed(rec) == OuterCatch(rec, "recreate")

\* mutant: the fallback goes to recreateContainer without the warning
FallbackSilent(rec) == [rec EXCEPT !.pc = "rcList"]

\* stackSuccess false: the warning that compose-specific settings may not be
\* preserved is logged, then recreateContainer is called
Fallback(rec) == [rec EXCEPT !.pc = "rcList", !.fallbackWarned = TRUE]

\* updateStackContainer: getStackComposeFile(stackName, envId); no compose file
\* or an exception return false
StackLookup(r) ==
    /\ At(r, "stackLookup")
    /\ \/ Set(r, [run[r] EXCEPT !.pc = "startStack"])
       \/ Set(r, Fallback([run[r] EXCEPT !.stackDef = "unknown",
                                        !.stackResult = "false"]))
       \/ Set(r, Fallback([run[r] EXCEPT !.stackDef = "error",
                                        !.stackResult = "false"]))
    /\ EngineSame /\ UNCHANGED <<su, chk, sse>>

\* updateStackContainer: startStack(stackName, envId), i.e. docker compose up -d
StartStack(r) ==
    /\ At(r, "startStack")
    /\ LET rec == [run[r] EXCEPT !.calls = @ \cup {"startStack"},
                                 !.stackDef = "known"]
       IN  \/ Set(r, Succeed([rec EXCEPT !.stackResult = "true"]))
           \/ Set(r, Fallback([rec EXCEPT !.stackResult = "false"]))
    /\ EngineSame /\ UNCHANGED <<su, chk, sse>>

\* sendEventNotification('auto_update_success'), inside the outer try block
NotifySuccess(r) ==
    /\ At(r, "notifySuccess")
    /\ \/ Set(r, [run[r] EXCEPT !.pc = "done"])
       \/ Set(r, OuterCatch(run[r], "notifySuccess"))
    /\ EngineSame /\ UNCHANGED <<su, chk, sse>>

\* sendEventNotification('auto_update_failed'), inside the outer catch block
NotifyFailed(r) ==
    /\ At(r, "notifyFailed")
    /\ \/ Set(r, [run[r] EXCEPT !.pc = "done"])
       \/ Set(r, [run[r] EXCEPT !.pc = "done", !.escaped = TRUE])
    /\ EngineSame /\ UNCHANGED <<su, chk, sse>>

(***************************************************************************)
(* recreateContainer                                                       *)
(***************************************************************************)
\* an engine call of recreateContainer threw at this step
RcThrow(rec, step) == [rec EXCEPT !.rcFailedAt = step]

\* return true
RcTrue(rec) == Succeed([rec EXCEPT !.rcResult = "true"])

\* mutant: an error of createContainer is swallowed and true is returned
RcCatchCreateSwallowed(rec) ==
    IF rec.rcFailedAt = "create" THEN RcTrue(rec)
    ELSE RecreateFailed([rec EXCEPT !.rcResult = "false"])

\* mutant: an error of stopContainer is swallowed and the removal goes ahead
RcCatchStopSwallowed(rec) ==
    IF rec.rcFailedAt = "stop" THEN [rec EXCEPT !.pc = "rcRemove"]
    ELSE RecreateFailed([rec EXCEPT !.rcResult = "false"])

\* mutant: an error of inspectContainer is swallowed and the removal goes ahead
RcCatchInspectSwallowed(rec) ==
    IF rec.rcFailedAt = "inspect" THEN [rec EXCEPT !.pc = "rcRemove"]
    ELSE RecreateFailed([rec EXCEPT !.rcResult = "false"])

\* catch (error) { return false }; also the container-not-found return
RcCatch(rec) == RecreateFailed([rec EXCEPT !.rcResult = "false"])

\* listContainers(true, envId) and find by name
RcList(r) ==
    /\ At(r, "rcList")
    /\ LET rec == Call(run[r], "list", 0)
       IN  \/ Set(r, RcCatch(RcThrow(rec, "list")))
           \/ /\ run[r].oldC = "absent"
              /\ Set(r, RcCatch(RcThrow(rec, "notfound")))
           \/ /\ run[r].oldC # "absent"
              /\ Set(r, [rec EXCEPT !.pc = "rcInspect"])
    /\ EngineSame /\ UNCHANGED <<su, chk, sse>>

\* if (wasRunning) stopContainer first, else straight to removeContainer
AfterInspect(wasRunning) == IF wasRunning THEN "rcStop" ELSE "rcRemove"

\* HostConfig.NetworkMode || 'bridge': host, default (the engine's value when
\* none was given at creation), bridge or a user-defined network
NetworkModes == {HostNet, DefaultNet, BridgeNet, 1}

\* the network the engine attaches for a network mode: the bridge network
\* for 'default'
ModeNetwork(mode) == IF mode = DefaultNet THEN BridgeNet ELSE mode

\* NetworkSettings.Networks of the inspected container: the network of its
\* NetworkMode and, unless that is host, at most n others; the engine has no
\* network named 'default'
AttachedSets(n, mode) ==
    IF mode = HostNet THEN {{HostNet}}
    ELSE {S \in SUBSET (BridgeNet..n) :
             /\ ModeNetwork(mode) \in S
             /\ Cardinality(S \ {ModeNetwork(mode)}) <= n}

\* isPrimary: netName === primaryNetwork, or bridge/default under 'bridge'
IsPrimary(netName, primaryNetwork) ==
    \/ netName = primaryNetwork
    \/ primaryNetwork = BridgeNet /\ netName \in {BridgeNet, DefaultNet}

RECURSIVE InOrder(_)
InOrder(S) ==
    IF S = {} THEN <<>>
    ELSE LET x == CHOOSE y \in S : \A z \in S : y <= z
         IN  <<x>> \o InOrder(S \ {x})

\* mutant: every attached network is put on the reconnection list
AdditionalNetworksAll(attached, primaryNetwork) == InOrder(attached)

\* additionalNetworks: the attached networks that are not primary
AdditionalNetworks(attached, primaryNetwork) ==
    InOrder({x \in attached : ~IsPrimary(x, primaryNetwork)})

\* what the inspection may hold for the attachments and the labels: the
\* engine lists the ids among the aliases or the DNS names, a compose file
\* may name the service as an alias once more
AliasLists ==
    {<<>>, <<ServiceName>>, <<OtherAlias, Substring(ContainerId, 0, ShortIdLen)>>,
     <<ProjectName \o <<"-">> \o ServiceName, ServiceName, ContainerId>>,
     <<ServiceName, ServiceName, Substring(ContainerId, 0, ShortIdLen)>>}

DnsNameLists == {<<>>, <<OtherAlias, Substring(ContainerId, 0, ShortIdLen)>>}

NetMetas ==
    {NetMeta(a, d, c) : a \in AliasLists, d \in DnsNameLists,
                        c \in {NoCompose, ComposeLabels}}

Includes(list, x) == \E i \in 1..Len(list) : list[i] = x

IsId(a) == a = ContainerId \/ a = Substring(ContainerId, 0, ShortIdLen)

\* mutant: the ids stay among the aliases
WithoutIdsKept(list) == list

\* .filter(a => a !== container.id && a !== shortContainerId)
WithoutIds(list) == SelectSeq(list, LAMBDA a : ~IsId(a))

\* if (!secondaryAliases.includes(x)) secondaryAliases.push(x)
PushIfMissing(list, x) == IF Includes(list, x) THEN list ELSE Append(list, x)

\* secondaryAliases: Aliases, or DNSNames when there are none, without the
\* ids; for a compose container the service name and project-service are
\* added when missing
SecondaryAliases(meta) ==
    LET listed == WithoutIds(IF Len(meta.aliases) > 0 THEN meta.aliases
                                                      ELSE meta.dnsNames)
        c == meta.compose
    IN  IF c.project # <<>> /\ c.service # <<>>
        THEN PushIfMissing(PushIfMissing(listed, c.service),
                           c.project \o <<"-">> \o c.service)
        ELSE listed

\* inspectContainer(container.id); wasRunning = State.Running; the snapshot
\* and the classification of its networks
RcInspect(r) ==
    /\ At(r, "rcInspect")
    /\ LET rec == Call(run[r], "inspect", 0)
       IN  \/ Set(r, RcCatch(RcThrow(rec, "inspect")))
           \/ \E mode \in NetworkModes, meta \in run[r].metaIn :
                \E attached \in AttachedSets(run[r].netsIn, mode) :
                 LET w == (run[r].oldC = "running")
                     more == AdditionalNetworks(attached, mode)
                 IN  Set(r, [rec EXCEPT !.pc = AfterInspect(w), !.wasRunning = w,
                        !.nets = Len(more), !.netNames = more,
                        !.primaryNets = {x \in attached : IsPrimary(x, mode)},
                        !.networkMode = mode, !.attached = attached,
                        !.netMeta = meta,
                        !.secondaryAliases =
                            [i \in 1..Len(more) |-> SecondaryAliases(meta)]])
    /\ EngineSame /\ UNCHANGED <<su, chk, sse>>

\* stopContainer(container.id, envId)
RcStop(r) ==
    /\ At(r, "rcStop")
    /\ LET rec == Call(run[r], "stop", 0)
       IN  \/ Set(r, [rec EXCEPT !.pc = "rcRemove", !.oldC = "stopped"])
           \/ Set(r, RcCatch(RcThrow(rec, "stop")))
    /\ EngineSame /\ UNCHANGED <<su, chk, sse>>

\* removeContainer(container.id, true, envId)
RcRemove(r) ==
    /\ At(r, "rcRemove")
    /\ LET rec == Call(run[r], "remove", 0)
       IN  \/ Set(r, [rec EXCEPT !.pc = "rcCreate", !.oldC = "absent"])
           \/ Set(r, RcCatch(RcThrow(rec, "remove")))
    /\ EngineSame /\ UNCHANGED <<su, chk, sse>>

\* mutant: the replacement is started whatever the old container's state was
AfterConnectAlwaysStart(rec) == [rec EXCEPT !.pc = "rcStart"]

\* if (wasRunning) newContainer.start() else return true
AfterConnect(rec) == IF rec.wasRunning THEN [rec EXCEPT !.pc = "rcStart"]
                                       ELSE RcTrue(rec)

\* the reconnect loop over additionalNetworks, entered after createContainer
ConnectLoop(rec) ==
    IF rec.netIdx < rec.nets
    THEN [rec EXCEPT !.pc = "rcConnect", !.netIdx = @ + 1]
    ELSE AfterConnect(rec)

\* createContainer(containerOptions, envId)
RcCreate(r) ==
    /\ At(r, "rcCreate")
    /\ LET rec == Call(run[r], "create", 0)
       IN  \/ Set(r, ConnectLoop([rec EXCEPT !.newC = "created"]))
           \/ Set(r, RcCatch(RcThrow(rec, "create")))
    /\ EngineSame /\ UNCHANGED <<su, chk, sse>>

\* mutant: a failed connect reaches the catch of recreateContainer
ConnectFailedAborts(rec) ==
    RcCatch(RcThrow([rec EXCEPT !.warned = @ \cup {rec.netIdx}], "connect"))

\* catch (netError): the warning names the network; the loop goes on
ConnectFailed(rec) == ConnectLoop([rec EXCEPT !.warned = @ \cup {rec.netIdx}])

\* connectContainerToNetwork(netInfo.name, newContainer.id, ...)
RcConnect(r) ==
    /\ At(r, "rcConnect")
    /\ LET rec == Call(run[r], "connect", run[r].netIdx)
       IN  \/ Set(r, ConnectLoop([rec EXCEPT !.connected = @ \cup {rec.netIdx}]))
           \/ Set(r, ConnectFailed(rec))
    /\ EngineSame /\ UNCHANGED <<su, chk, sse>>

\* newContainer.start()
RcStart(r) ==
    /\ At(r, "rcStart")
    /\ LET rec == Call(run[r], "start", 0)
       IN  \/ Set(r, RcTrue([rec EXCEPT !.newC = "running"]))
           \/ Set(r, RcCatch(RcThrow(rec, "start")))
    /\ EngineSame /\ UNCHANGED <<su, chk, sse>>

(***************************************************************************)
(* Self-update: POST handler, fail-fast validation                         *)
(***************************************************************************)
RunsSame == UNCHANGED <<run, prodTag, tempTag, approved, chk, sse>>

\* return json({ error }, { status }) before the stream is started
Reject(s, code) == [s EXCEPT !.response = code, !.pc = "done"]

\* if (auth.authEnabled && !auth.isAdmin)
AdminGuard(s) == s.authEnabled /\ ~s.isAdmin

\* authorize(cookies) and the admin check
SuAuthorize ==
    /\ su.pc = "authorize"
    /\ su' = IF AdminGuard(su) THEN Reject(su, "e403")
                               ELSE [su EXCEPT !.pc = "body"]
    /\ RunsSame

\* request.json(); if (!newImage)
SuBody ==
    /\ su.pc = "body"
    /\ su' = IF ~su.hasImage THEN Reject(su, "e400")
                             ELSE [su EXCEPT !.pc = "ownId"]
    /\ RunsSame

\* getOwnContainerId(); if (!containerId)
SuOwnId ==
    /\ su.pc = "ownId"
    /\ su' = IF ~su.inDocker THEN Reject(su, "e400")
                             ELSE [su EXCEPT !.pc = "socket"]
    /\ RunsSame

\* mutant: the read-write check of the socket mount is skipped
SocketGuardSkipped(s) == FALSE

\* if (!writable)
SocketGuard(s) == ~s.writable

\* isDockerSocketWritable(containerId): inspect, find the socket mount, RW
SuSocket ==
    /\ su.pc = "socket"
    /\ LET s == [su EXCEPT !.calls = @ \cup {"inspect"}]
       IN  su' = IF SocketGuard(s) THEN Reject(s, "e400")
                                   ELSE [s EXCEPT !.pc = "name"]
    /\ RunsSame

(***************************************************************************)
(* Self-update: the progress stream                                        *)
(***************************************************************************)
StepEv(step, status) == [event |-> "step", step |-> step, status |-> status]
LogEv == [event |-> "log", step |-> "-", status |-> "-"]
LaunchedEv == [event |-> "launched", step |-> "-", status |-> "-"]
ErrorEv == [event |-> "error", step |-> "preparation", status |-> "-"]

\* mutant: the pipeline is abandoned at the first send the client misses
SendOrAbort(s, ev) ==
    LET t == [s EXCEPT !.sent = Append(@, ev)]
    IN  IF s.controllerClosed \/ ~s.connected
        THEN [t EXCEPT !.controllerClosed = TRUE, !.pc = "done"]
        ELSE [t EXCEPT !.events = Append(@, ev)]

\* send(event, data): dropped once controllerClosed; an enqueue that throws
\* (the client is gone) sets controllerClosed
Send(s, ev) ==
    LET t == [s EXCEPT !.sent = Append(@, ev)]
    IN  IF s.controllerClosed THEN t
        ELSE IF s.connected THEN [t EXCEPT !.events = Append(@, ev)]
        ELSE [t EXCEPT !.controllerClosed = TRUE]

RECURSIVE SendAll(_, _)
SendAll(s, evs) ==
    IF evs = <<>> THEN s ELSE SendAll(Send(s, Head(evs)), Tail(evs))

\* finally: if (!controllerClosed) controller.close()
Finally(s) ==
    [s EXCEPT !.pc = "done",
              !.streamClosed = IF s.controllerClosed THEN @ ELSE TRUE]

\* mutant: the catch block does not remove the pre-created container
CleanupSkipped(s) == FALSE

\* if (newContainerId): the pre-created container is to be removed
CleanupNeeded(s) == s.newContainerId # "none"

\* catch (err): send('error'), then the cleanup of the pre-created container
SuCatch(s) ==
    LET t == Send([s EXCEPT !.failed = TRUE], ErrorEv)
    IN  IF CleanupNeeded(t) THEN [t EXCEPT !.pc = "removeNew"] ELSE Finally(t)

\* inspect of the own container for its name; !nameResponse.ok or no name;
\* then the stream starts and runs up to the first pull
SuName ==
    /\ su.pc = "name"
    /\ LET s == [su EXCEPT !.calls = @ \cup {"inspect"}]
       IN  su' = IF ~s.hasName THEN Reject(s, "e500")
                 ELSE SendAll([s EXCEPT !.pc = "pullImage", !.response = "stream"],
                              <<StepEv("pulling_image", "active"), LogEv>>)
    /\ RunsSame

\* what the engine's progress stream of a pull answered with status 200 holds:
\* status lines only, or a line with an error field (the pull failed)
PullStreams == {"status", "error"}

\* pullImageLocal(imageName, onProgress) once the response is ok: every line
\* of the stream goes to onProgress, an error line as "Error: ..."; the
\* function returns when the stream ends
PullImageLocal(s, step, stream) ==
    IF stream = "error"
    THEN Send([s EXCEPT !.notPulled = @ \cup {step}], LogEv)
    ELSE s

\* Step 1: pullImageLocal(newImage)
SuPullImage ==
    /\ su.pc = "pullImage"
    /\ LET s == [su EXCEPT !.calls = @ \cup {"pull"}]
       IN  \/ \E stream \in PullStreams :
                 su' = SendAll([PullImageLocal(s, "pulling_image", stream)
                                   EXCEPT !.pc = "inspectSelf"],
                        <<StepEv("pulling_image", "completed"), LogEv,
                          StepEv("building_config", "active"), LogEv>>)
           \/ su' = SuCatch(s)
    /\ RunsSame

\* what the inspection of the own container returns: the keys of Config and
\* HostConfig.NetworkMode
InspectInputs ==
    [config : {{"Image", "Env"}, {"Image", "Env", "Hostname", "MacAddress"}},
     networkMode : {"bridge", "mynet", "host"}]

\* HostConfig.Binds of the own container; an entry is the sequence of its
\* parts between colons
BindLists ==
    {<<>>, << <<"/host", "/data">> >>,
     << <<"vol1", "/data", "ro">>, <<"/cfg">> >>}

Mount(type, name, destination) ==
    [type |-> type, name |-> name, destination |-> destination]

\* Mounts of the own container
MountLists ==
    {<<>>, <<Mount("volume", "vol1", "/data")>>,
     <<Mount("bind", "", "/data"), Mount("volume", "anon1", "/cache")>>,
     <<Mount("volume", "anon1", "/cfg"), Mount("volume", "anon2", "/cache"),
       Mount("volume", "vol1", "/data")>>}

\* inspectData of the own container
InspectData(inspect, s) ==
    [config |-> inspect.config, networkMode |-> inspect.networkMode,
     binds |-> s.binds, mounts |-> s.mounts]

\* the value a key of the inspected Config has
Inspected(key) == <<key, "inspected">>

\* mutant: the first part of a bind is taken as its target
ExistingBindsBySource(binds) == {binds[i][1] : i \in 1..Len(binds)}

\* existingBinds: parts.length >= 2 ? parts[1] : parts[0]
ExistingBinds(binds) ==
    {IF Len(binds[i]) >= 2 THEN binds[i][2] ELSE binds[i][1] :
        i \in 1..Len(binds)}

IsNewVolume(mount, existing) ==
    /\ mount.type = "volume" /\ mount.name # "" /\ mount.destination # ""
    /\ mount.destination \notin existing

\* additionalBinds: Name:Destination of the volume mounts no bind targets
RECURSIVE AdditionalBinds(_, _)
AdditionalBinds(mounts, existing) ==
    IF mounts = <<>> THEN <<>>
    ELSE (IF IsNewVolume(Head(mounts), existing)
          THEN << <<Head(mounts).name, Head(mounts).destination>> >>
          ELSE <<>>) \o AdditionalBinds(Tail(mounts), existing)

\* buildCreateConfig(inspectData, newImage): { ...config, Image, HostConfig:
\* { ...hostConfig } } with MacAddress and Hostname deleted and the
\* additional binds appended to HostConfig.Binds; no NetworkingConfig is
\* added and HostConfig is copied as it is
BuildCreateConfig(inspect) ==
    LET keys == (inspect.config \cup {"Image", "HostConfig"})
                   \ {"MacAddress", "Hostname"}
    IN  [keys |-> keys,
         fields |-> {Inspected(k) : k \in keys \ {"Image", "HostConfig"}}
                       \cup {<<"Image", "newImage">>},
         networkMode |-> inspect.networkMode,
         binds |-> inspect.binds
                      \o AdditionalBinds(inspect.mounts,
                                         ExistingBinds(inspect.binds))]

\* network names are sequences of characters
NameChars == {"a", "-", "_"}
NetNames == {<<"a", c>> : c \in NameChars}

\* one entry of NetworkSettings.Networks: IPAMConfig.IPv4Address,
\* IPAMConfig.IPv6Address ("none" when not set), Aliases and Links
NetConfig(ipv4, ipv6, aliases) ==
    [ipv4 |-> ipv4, ipv6 |-> ipv6, aliases |-> aliases, links |-> <<>>]

NetConfigs ==
    {NetConfig("none", "none", <<>>), NetConfig("10.0.0.2", "none", <<>>),
     NetConfig("10.0.0.3", "fd00::3", <<"web", "db">>)}

\* NetworkSettings.Networks of the own container, in the order of
\* Object.entries: attachments with distinct names
OwnNetworks ==
    {nets \in UNION {[1..n -> [name : NetNames, conf : NetConfigs]] :
                        n \in 0..Cardinality(NetNames)} :
        \A i, j \in 1..Len(nets) : nets[i].name = nets[j].name => i = j}

\* netName.replace(/[.-]/g, '_')
SafeNetName(netName) ==
    [i \in 1..Len(netName) |->
        IF netName[i] \in {".", "-"} THEN "_" ELSE netName[i]]

\* the name of the variable that carries the options of a network
OptsKey(netName) == <<"NETWORK_OPTS", SafeNetName(netName)>>

Key(name) == <<name, <<>>>>

\* opts: --ip, --ip6, one --alias per alias, one --link per link
NetOpts(nc) ==
    (IF nc.ipv4 # "none" THEN <<<<"--ip", nc.ipv4>>>> ELSE <<>>)
    \o (IF nc.ipv6 # "none" THEN <<<<"--ip6", nc.ipv6>>>> ELSE <<>>)
    \o [i \in 1..Len(nc.aliases) |-> <<"--alias", nc.aliases[i]>>]
    \o [i \in 1..Len(nc.links) |-> <<"--link", nc.links[i]>>]

RECURSIVE NetworkOptVars(_)
NetworkOptVars(nets) ==
    IF nets = <<>> THEN <<>>
    ELSE LET opts == NetOpts(Head(nets).conf)
         IN  (IF opts # <<>>
              THEN <<[key |-> OptsKey(Head(nets).name), value |-> opts]>>
              ELSE <<>>) \o NetworkOptVars(Tail(nets))

\* buildNetworkEnvVars(inspectData): NETWORKS first, then one NETWORK_OPTS_*
\* for each network that has options; nothing without networks
BuildNetworkEnvVars(nets) ==
    IF nets = <<>> THEN <<>>
    ELSE <<[key |-> Key("NETWORKS"),
            value |-> [i \in 1..Len(nets) |-> nets[i].name]]>>
         \o NetworkOptVars(nets)

\* the ids and the name of the own container
OwnContainerId == "self"
OwnContainerName == "dockhand"

\* updaterEnv: OLD_CONTAINER_ID, NEW_CONTAINER_ID, CONTAINER_NAME,
\* ...networkEnvVars
UpdaterEnv(s) ==
    <<[key |-> Key("OLD_CONTAINER_ID"), value |-> OwnContainerId],
      [key |-> Key("NEW_CONTAINER_ID"), value |-> s.newContainerId],
      [key |-> Key("CONTAINER_NAME"), value |-> OwnContainerName]>>
    \o s.networkEnvVars

\* Step 2: self-inspect, buildCreateConfig, buildNetworkEnvVars
SuInspectSelf ==
    /\ su.pc = "inspectSelf"
    /\ LET s == [su EXCEPT !.calls = @ \cup {"inspect"}]
       IN  \/ \E inspect \in InspectInputs :
                 su' = SendAll([s EXCEPT !.pc = "pullUpdater",
                                  !.inspectData = InspectData(inspect, s),
                                  !.createConfig =
                                      BuildCreateConfig(InspectData(inspect, s)),
                                  !.networkEnvVars =
                                      BuildNetworkEnvVars(s.networks)],
                        <<LogEv, StepEv("building_config", "completed"),
                          StepEv("pulling_updater", "active"), LogEv>>)
           \/ su' = SuCatch(s)
    /\ RunsSame

\* Step 3: pullImageLocal(UPDATER_IMAGE)
SuPullUpdater ==
    /\ su.pc = "pullUpdater"
    /\ LET s == [su EXCEPT !.calls = @ \cup {"pull"}]
       IN  \/ \E stream \in PullStreams :
                 su' = SendAll([PullImageLocal(s, "pulling_updater", stream)
                                   EXCEPT !.pc = "cleanupUpdaters"],
                        <<StepEv("pulling_updater", "completed"), LogEv,
                          StepEv("creating_container", "active"), LogEv>>)
           \/ su' = SuCatch(s)
    /\ RunsSame

\* a container left by an earlier request that the listing returned: stopped
\* if running, then force-removed
Removed(c) == IF c = "absent" THEN c ELSE "removed"

\* Step 4: cleanupExistingUpdaters(): stop and force-remove labelled updaters
SuCleanupUpdaters ==
    /\ su.pc = "cleanupUpdaters"
    /\ \/ su' = [su EXCEPT !.pc = "cleanupStale"]
       \/ su' = [su EXCEPT !.pc = "cleanupStale",
                           !.calls = @ \cup {"stopUpdater", "removeUpdater"},
                           !.priorHelper = Removed(@)]
       \/ su' = SuCatch(su)
    /\ RunsSame

\* Step 4: stop and force-remove leftover <name>-updating containers
SuCleanupStale ==
    /\ su.pc = "cleanupStale"
    /\ \/ su' = [su EXCEPT !.pc = "createNew"]
       \/ su' = [su EXCEPT !.pc = "createNew",
                           !.calls = @ \cup {"stopStale", "removeStale"},
                           !.priorReplacement = Removed(@)]
       \/ su' = SuCatch(su)
    /\ RunsSame

\* Step 4: POST /containers/create?name=<name>-updating; the id is recorded
\* from the response body
SuCreateNew ==
    /\ su.pc = "createNew"
    /\ LET s == [su EXCEPT !.calls = @ \cup {"create"}]
       IN  \/ su' = SendAll([s EXCEPT !.pc = "createUpdater",
                                      !.replacement = "created",
                                      !.newContainerId = "new"],
                        <<LogEv, StepEv("creating_container", "completed"),
                          StepEv("launching_updater", "active")>>)
           \/ su' = SuCatch(s)
           \/ su' = SuCatch([s EXCEPT !.replacement = "created"])
    /\ RunsSame

\* Step 5: POST /containers/create?name=dockhand-updater
SuCreateUpdater ==
    /\ su.pc = "createUpdater"
    /\ LET s == [su EXCEPT !.calls = @ \cup {"createUpdater"},
                           !.updaterEnv = UpdaterEnv(su)]
       IN  \/ su' = [s EXCEPT !.pc = "startUpdater", !.helper = "created"]
           \/ su' = SuCatch(s)
    /\ RunsSame

\* mutant: 'launched' is sent before the step is reported completed
LaunchedEarly(s) ==
    Finally(SendAll([s EXCEPT !.helper = "running"],
                    <<LogEv, LogEv, LaunchedEv,
                      StepEv("launching_updater", "completed")>>))

\* what follows a successful start of the updater: the hand-off
Launched(s) ==
    Finally(SendAll([s EXCEPT !.helper = "running"],
                    <<LogEv, LogEv, StepEv("launching_updater", "completed"),
                      LaunchedEv>>))

\* Step 5: POST /containers/<updaterId>/start; if (!startResponse.ok) the
\* updater is removed and the step throws
SuStartUpdater ==
    /\ su.pc = "startUpdater"
    /\ LET s == [su EXCEPT !.calls = @ \cup {"startUpdater"}]
       IN  \/ su' = Launched(s)
           \/ su' = [s EXCEPT !.pc = "removeUpdater"]
           \/ su' = SuCatch(s)
    /\ RunsSame

\* DELETE /containers/<updaterId>?force=true, then throw
SuRemoveUpdater ==
    /\ su.pc = "removeUpdater"
    /\ LET s == [su EXCEPT !.calls = @ \cup {"removeUpdater"}]
       IN  \/ su' = SuCatch([s EXCEPT !.helper = "absent"])
           \/ su' = SuCatch(s)
    /\ RunsSame

\* DELETE /containers/<newContainerId>?force=true with .catch(() => {})
SuRemoveNew ==
    /\ su.pc = "removeNew"
    /\ LET s == [su EXCEPT !.calls = @ \cup {"removeNew"},
                           !.removeAttempted = TRUE]
       IN  \/ su' = Finally([s EXCEPT !.replacement = "absent", !.removeOk = TRUE])
           \/ su' = Finally(s)
    /\ RunsSame

\* the client goes away: the next enqueue throws
ClientDisconnect ==
    /\ su.response = "stream" /\ su.pc # "done" /\ su.connected
    /\ su' = [su EXCEPT !.connected = FALSE]
    /\ RunsSame

(***************************************************************************)
(* Self-update check: GET handler                                          *)
(***************************************************************************)
\* return json({ updateAvailable, error? ... })
Reply(c, avail, err) ==
    [c EXCEPT !.pc = "done", !.response = "json", !.updateAvailable = avail,
              !.error = err,
              !.body = {"updateAvailable"}
                          \cup (IF err = "none" THEN {} ELSE {"error"})]

\* catch (err): updateAvailable false, 'Check failed: ...'
CheckCatch(c) == Reply(c, FALSE, "checkFailed")

\* authorize(cookies); if (auth.authEnabled && !auth.isAdmin) 403
ChkAuthorize ==
    /\ chk.pc = "authorize"
    /\ chk' = IF chk.authEnabled /\ ~chk.isAdmin
              THEN [chk EXCEPT !.pc = "done", !.response = "e403",
                               !.error = "adminRequired", !.body = {"error"}]
              ELSE [chk EXCEPT !.pc = "ownId"]
    /\ UNCHANGED <<run, prodTag, tempTag, approved, su, sse>>

\* getOwnContainerId(); if (!containerId)
ChkOwnId ==
    /\ chk.pc = "ownId"
    /\ chk' = IF ~chk.inDocker THEN Reply(chk, FALSE, "notInDocker")
                               ELSE [chk EXCEPT !.pc = "inspect"]
    /\ UNCHANGED <<run, prodTag, tempTag, approved, su, sse>>

\* mutant: the digest test is missing and a pinned image is checked like a tag
PinnedSkipMissing(image) == FALSE

\* if (currentImage.includes('@sha256:'))
PinnedSkip(image) == image = "digest"

\* inspect of the own container; Config.Image missing; digest-pinned image
ChkInspect ==
    /\ chk.pc = "inspect"
    /\ LET c == [chk EXCEPT !.calls = @ \cup {"inspect"}]
       IN  \/ chk' = CheckCatch(c)
           \/ chk' = Reply(c, FALSE, "inspectFailed")
           \/ chk' = IF c.image = "none" THEN Reply(c, FALSE, "noImage")
                     ELSE IF PinnedSkip(c.image) THEN Reply(c, FALSE, "none")
                     ELSE [c EXCEPT !.pc = "imageInspect"]
    /\ UNCHANGED <<run, prodTag, tempTag, approved, su, sse>>

\* RepoDigests of the current image: entries "repo@digest", here the
\* sequence of the parts around the @
RepoDigestLists ==
    {<<>>, << <<"repo">> >>, << <<"repo", "sha1">> >>,
     << <<"repo", "sha1">>, <<"mirror", "sha2">> >>}

\* localDigests: what follows the last @ of each entry that has one
LocalDigests(repoDigests) ==
    {repoDigests[i][Len(repoDigests[i])] :
        i \in {j \in 1..Len(repoDigests) : Len(repoDigests[j]) > 1}}

\* inspect of the current image for its RepoDigests; no local digest means a
\* local image
ChkImageInspect ==
    /\ chk.pc = "imageInspect"
    /\ LET c == [chk EXCEPT !.calls = @ \cup {"imageInspect"}]
       IN  \/ chk' = CheckCatch(c)
           \/ chk' = Reply(c, FALSE, "imageInspectFailed")
           \/ \E rd \in RepoDigestLists :
                 LET d == [c EXCEPT !.repoDigests = rd]
                 IN  chk' = IF LocalDigests(rd) = {}
                            THEN [Reply(d, FALSE, "none")
                                    EXCEPT !.body = @ \cup {"isLocalImage"}]
                            ELSE [d EXCEPT !.pc = "registry"]
    /\ UNCHANGED <<run, prodTag, tempTag, approved, su, sse>>

\* what the registry answers for the manifest digest; "none" is no digest
RegistryDigests == {"none", "sha1", "sha2", "sha3"}

\* mutant: any digest of the registry is reported as an update
HasUpdateAlways(localDigests, registryDigest) == TRUE

\* hasUpdate = !localDigests.includes(registryDigest)
HasUpdate(localDigests, registryDigest) == registryDigest \notin localDigests

\* getRegistryManifestDigest(currentImage); if (!registryDigest)
ChkRegistry ==
    /\ chk.pc = "registry"
    /\ LET c == [chk EXCEPT !.calls = @ \cup {"registry"},
                            !.registryQueries = @ + 1]
       IN  \/ chk' = CheckCatch(c)
           \/ \E digest \in RegistryDigests :
                 LET d == [c EXCEPT !.registryDigest = digest]
                 IN  chk' = IF digest = "none"
                            THEN Reply(d, FALSE, "registryFailed")
                            ELSE Reply(d, HasUpdate(LocalDigests(d.repoDigests),
                                                    digest), "none")
    /\ UNCHANGED <<run, prodTag, tempTag, approved, su, sse>>

(***************************************************************************)
(* The Docker events endpoint: GET /api/events                             *)
(***************************************************************************)
MaxQueue == 4
MaxLines == 2

\* stream: the state of the ReadableStream handed to the response; queue: the
\* events enqueued so far; closes: how often the stream went from readable to
\* closed; closeCalls: calls of controller.close()
IdleEvents ==
    [pc |-> "idle", hasEnv |-> FALSE, body |-> "none", stream |-> "none",
     queue |-> <<>>, controllerClosed |-> FALSE, heartbeatInterval |-> "none",
     closes |-> 0, closeCalls |-> 0, cancelled |-> FALSE, ended |-> "none"]

\* controller.enqueue and controller.close throw unless the stream is readable
SendEvent(s, type) ==
    IF s.controllerClosed THEN s
    ELSE IF s.stream = "readable" THEN [s EXCEPT !.queue = Append(@, type)]
    ELSE [s EXCEPT !.controllerClosed = TRUE]

SafeClose(s) ==
    IF s.controllerClosed THEN s
    ELSE IF s.stream = "readable"
         THEN [s EXCEPT !.stream = "closed", !.closes = @ + 1,
                        !.closeCalls = @ + 1, !.controllerClosed = TRUE]
         ELSE [s EXCEPT !.closeCalls = @ + 1, !.controllerClosed = TRUE]

ClearInterval(s) == [s EXCEPT !.heartbeatInterval = "cleared"]

\* clearInterval(heartbeatInterval); safeClose()
Finish(s, how) ==
    [SafeClose(ClearInterval(s)) EXCEPT !.pc = "ended", !.ended = how]

RECURSIVE SendEvents(_, _, _)
SendEvents(s, type, n) ==
    IF n = 0 THEN s ELSE SendEvents(SendEvent(s, type), type, n - 1)

\* room in the queue for n more events, asked only where they would be enqueued
Room(s, n) ==
    (~s.controllerClosed /\ s.stream = "readable") => Len(s.queue) + n <= MaxQueue

OthersSame == UNCHANGED <<run, prodTag, tempTag, approved, su, chk>>

\* no environment in the query: a fixed 'info' body, no stream
EvGet ==
    /\ sse.pc = "get"
    /\ sse' = IF sse.hasEnv THEN [sse EXCEPT !.pc = "getEnvironment"]
              ELSE [sse EXCEPT !.pc = "replied", !.body = "info"]
    /\ OthersSame

\* an edge environment gets a fixed 'error' body; otherwise the stream is built
\* and start() runs to its first await: timer set, 'connected' sent
EvGetEnvironment ==
    /\ sse.pc = "getEnvironment"
    /\ \E conn \in {"hawser-edge", "socket", "throw"} :
          sse' = CASE conn = "hawser-edge" -> [sse EXCEPT !.pc = "replied", !.body = "error"]
                   [] conn = "throw" -> [sse EXCEPT !.pc = "threw"]
                   [] OTHER ->
                        [SendEvent([sse EXCEPT !.stream = "readable",
                                               !.heartbeatInterval = "armed"],
                                   "connected")
                           EXCEPT !.pc = "getDockerEvents"]
    /\ OthersSame

\* getDockerEvents returns a stream, returns nothing or throws
EvGetDockerEvents ==
    /\ sse.pc = "getDockerEvents"
    /\ \E res \in {"stream", "null", "notFound", "throw"} :
          sse' = IF res = "stream" THEN [sse EXCEPT !.pc = "reading"]
                 ELSE Finish(SendEvent(sse, "error"), "noStream")
    /\ OthersSame

\* reader.read() yields a chunk with n complete event lines
EvReadChunk ==
    /\ sse.pc = "reading"
    /\ \E n \in 1..MaxLines :
          /\ Room(sse, n)
          /\ sse' = SendEvents(sse, "docker", n)
    /\ OthersSame

\* reader.read() reports done: the loop breaks and the finally block runs
EvReadDone ==
    /\ sse.pc = "reading"
    /\ sse' = Finish(sse, "done")
    /\ OthersSame

\* reader.read() rejects: the catch block sends 'error', then the finally block
EvReadError ==
    /\ sse.pc = "reading"
    /\ sse' = Finish(SendEvent(sse, "error"), "error")
    /\ OthersSame

\* the interval callback; sendEvent catches what enqueue throws, so the
\* callback's own catch with its clearInterval is never entered
EvHeartbeat ==
    /\ sse.heartbeatInterval = "armed"
    /\ Room(sse, 1)
    /\ sse' = SendEvent(sse, "heartbeat")
    /\ OthersSame

\* the client goes away: the response stream is cancelled; the underlying
\* source has no cancel(), so nothing of the handler runs
EvClientDisconnect ==
    /\ sse.stream = "readable"
    /\ sse' = [sse EXCEPT !.stream = "closed", !.closes = @ + 1, !.cancelled = TRUE]
    /\ OthersSame

(***************************************************************************)
(* Specifications                                                          *)
(***************************************************************************)
Containers == {"running", "stopped", "absent"}

\* one update run
Init ==
    /\ sse = IdleEvents
    /\ \E c \in Containers :
          run = [r \in Runs |-> IF r = "r1" THEN [IdleRun EXCEPT !.oldC = c, !.oldC0 = c]
                                           ELSE OffRun]
    /\ prodTag = OldImage
    /\ tempTag = "none"
    /\ approved = {}
    /\ su = IdleSelf
    /\ chk = IdleCheck

Next ==
    \/ \E r \in Runs : Begin(r)
    \/ \E r \in Runs : ListContainers(r)
    \/ \E r \in Runs : InspectContainer(r)
    \/ \E r \in Runs : GetSettings(r)
    \/ \E r \in Runs : RegistryCheck(r)
    \/ \E r \in Runs : SafePull(r)
    \/ \E r \in Runs : GetNewImageId(r)
    \/ \E r \in Runs : RestoreTag(r)
    \/ \E r \in Runs : TagTemp(r)
    \/ \E r \in Runs : ScanNew(r)
    \/ \E r \in Runs : LookupCurrentScan(r)
    \/ \E r \in Runs : ScanCurrent(r)
    \/ \E r \in Runs : Gate(r)
    \/ \E r \in Runs : RemoveBlocked(r)
    \/ \E r \in Runs : NotifyBlocked(r)
    \/ \E r \in Runs : ScanFail(r)
    \/ \E r \in Runs : Promote(r)
    \/ \E r \in Runs : CleanupTemp(r)
    \/ \E r \in Runs : SimplePull(r)
    \/ \E r \in Runs : StackLookup(r)
    \/ \E r \in Runs : StartStack(r)
    \/ \E r \in Runs : NotifySuccess(r)
    \/ \E r \in Runs : NotifyFailed(r)
    \/ \E r \in Runs : RcList(r)
    \/ \E r \in Runs : RcInspect(r)
    \/ \E r \in Runs : RcStop(r)
    \/ \E r \in Runs : RcRemove(r)
    \/ \E r \in Runs : RcCreate(r)
    \/ \E r \in Runs : RcConnect(r)
    \/ \E r \in Runs : RcStart(r)

Spec == Init /\ [][Next]_vars

\* one update run in which every awaited call settles: the function goes on
\* after each await, so a step that is possible is eventually taken
\* the scan summaries are narrowed to one clean and one vulnerable image, the
\* container has at most one secondary network
LiveRun ==
    [IdleRun EXCEPT !.summariesIn = {[critical |-> 0, high |-> 0],
                                     [critical |-> MaxVuln, high |-> 0]},
                    !.netsIn = 1]

InitLive ==
    /\ sse = IdleEvents
    /\ \E c \in Containers :
          run = [r \in Runs |-> IF r = "r1" THEN [LiveRun EXCEPT !.oldC = c, !.oldC0 = c]
                                           ELSE OffRun]
    /\ prodTag = OldImage
    /\ tempTag = "none"
    /\ approved = {}
    /\ su = IdleSelf
    /\ chk = IdleCheck

SpecLive == InitLive /\ [][Next]_vars /\ WF_vars(Next)

\* one update run without scanning, of a container with at most one secondary
\* network, whose inspection holds any of the alias lists and labels
AliasRun ==
    [IdleRun EXCEPT !.criteriaIn = {}, !.netsIn = 1, !.metaIn = NetMetas]

InitAlias ==
    /\ sse = IdleEvents
    /\ \E c \in Containers :
          run = [r \in Runs |-> IF r = "r1" THEN [AliasRun EXCEPT !.oldC = c, !.oldC0 = c]
                                           ELSE OffRun]
    /\ prodTag = OldImage
    /\ tempTag = "none"
    /\ approved = {}
    /\ su = IdleSelf
    /\ chk = IdleCheck

NextAlias ==
    \/ \E r \in Runs : Begin(r)
    \/ \E r \in Runs : ListContainers(r)
    \/ \E r \in Runs : InspectContainer(r)
    \/ \E r \in Runs : GetSettings(r)
    \/ \E r \in Runs : RegistryCheck(r)
    \/ \E r \in Runs : SimplePull(r)
    \/ \E r \in Runs : StackLookup(r)
    \/ \E r \in Runs : StartStack(r)
    \/ \E r \in Runs : NotifySuccess(r)
    \/ \E r \in Runs : NotifyFailed(r)
    \/ \E r \in Runs : RcList(r)
    \/ \E r \in Runs : RcInspect(r)
    \/ \E r \in Runs : RcStop(r)
    \/ \E r \in Runs : RcRemove(r)
    \/ \E r \in Runs : RcCreate(r)
    \/ \E r \in Runs : RcConnect(r)
    \/ \E r \in Runs : RcStart(r)

SpecAlias == InitAlias /\ [][NextAlias]_vars

\* two update runs, for two containers that use the same image reference
\* both containers exist and run; the scan inputs are narrowed to one blocking
\* and one passing summary under criterion 'any'
ConcRun ==
    [IdleRun EXCEPT !.criteriaIn = {"any"},
                    !.summariesIn = {[critical |-> 0, high |-> 0],
                                     [critical |-> MaxVuln, high |-> 0]},
                    !.netsIn = 0]

InitConc ==
    /\ sse = IdleEvents
    /\ run = [r \in Runs |-> ConcRun]
    /\ prodTag = OldImage
    /\ tempTag = "none"
    /\ approved = {}
    /\ su = IdleSelf
    /\ chk = IdleCheck

\* the image phase of the runs: everything up to the update of the container
NextConc ==
    \/ \E r \in Runs : Begin(r)
    \/ \E r \in Runs : ListContainers(r)
    \/ \E r \in Runs : InspectContainer(r)
    \/ \E r \in Runs : GetSettings(r)
    \/ \E r \in Runs : RegistryCheck(r)
    \/ \E r \in Runs : SafePull(r)
    \/ \E r \in Runs : GetNewImageId(r)
    \/ \E r \in Runs : RestoreTag(r)
    \/ \E r \in Runs : TagTemp(r)
    \/ \E r \in Runs : ScanNew(r)
    \/ \E r \in Runs : Gate(r)
    \/ \E r \in Runs : RemoveBlocked(r)
    \/ \E r \in Runs : NotifyBlocked(r)
    \/ \E r \in Runs : ScanFail(r)
    \/ \E r \in Runs : Promote(r)
    \/ \E r \in Runs : CleanupTemp(r)
    \/ \E r \in Runs : SimplePull(r)
    \/ \E r \in Runs : NotifyFailed(r)

SpecConc == InitConc /\ [][NextConc]_vars

\* an update run up to its pull, next to one self-update check request
HeadRun == [IdleRun EXCEPT !.criteriaIn = {"any"}]

CheckImages == {"none", "digest", "tag"}

InitDigest ==
    /\ sse = IdleEvents
    /\ \E c \in Containers :
          run = [r \in Runs |-> IF r = "r1" THEN [HeadRun EXCEPT !.oldC = c, !.oldC0 = c]
                                           ELSE OffRun]
    /\ prodTag = OldImage
    /\ tempTag = "none"
    /\ approved = {}
    /\ su = IdleSelf
    /\ \E ae, ad, dk \in BOOLEAN, im \in CheckImages :
          chk = [IdleCheck EXCEPT !.pc = "authorize", !.authEnabled = ae,
                   !.isAdmin = ad, !.inDocker = dk, !.image = im]

NextDigest ==
    \/ \E r \in Runs : Begin(r)
    \/ \E r \in Runs : ListContainers(r)
    \/ \E r \in Runs : InspectContainer(r)
    \/ \E r \in Runs : GetSettings(r)
    \/ \E r \in Runs : RegistryCheck(r)
    \/ \E r \in Runs : SafePull(r)
    \/ \E r \in Runs : SimplePull(r)
    \/ \E r \in Runs : NotifyFailed(r)
    \/ ChkAuthorize
    \/ ChkOwnId
    \/ ChkInspect
    \/ ChkImageInspect
    \/ ChkRegistry

SpecDigest == InitDigest /\ [][NextDigest]_vars

\* one self-update request
InitSelf ==
    /\ sse = IdleEvents
    /\ run = [r \in Runs |-> OffRun]
    /\ prodTag = OldImage
    /\ tempTag = "none"
    /\ approved = {}
    /\ \E ae, ad, im, dk, wr, nm \in BOOLEAN :
          su = [IdleSelf EXCEPT !.pc = "authorize", !.authEnabled = ae,
                  !.isAdmin = ad, !.hasImage = im, !.inDocker = dk,
                  !.writable = wr, !.hasName = nm]
    /\ chk = IdleCheck

NextSelf ==
    \/ SuAuthorize
    \/ SuBody
    \/ SuOwnId
    \/ SuSocket
    \/ SuName
    \/ SuPullImage
    \/ SuInspectSelf
    \/ SuPullUpdater
    \/ SuCleanupUpdaters
    \/ SuCleanupStale
    \/ SuCreateNew
    \/ SuCreateUpdater
    \/ SuStartUpdater
    \/ SuRemoveUpdater
    \/ SuRemoveNew
    \/ ClientDisconnect

SpecSelf == InitSelf /\ [][NextSelf]_vars

\* one more self-update request, handled by the orchestrator after an earlier
\* request launched its helper and before that helper has stopped it
InitSelfAgain ==
    /\ sse = IdleEvents
    /\ run = [r \in Runs |-> OffRun]
    /\ prodTag = OldImage
    /\ tempTag = "none"
    /\ approved = {}
    /\ \E ae, ad, im, dk, wr, nm \in BOOLEAN :
          su = [IdleSelf EXCEPT !.pc = "authorize", !.authEnabled = ae,
                  !.isAdmin = ad, !.hasImage = im, !.inDocker = dk,
                  !.writable = wr, !.hasName = nm,
                  !.priorHelper = "running", !.priorReplacement = "created"]
    /\ chk = IdleCheck

SpecSelfAgain == InitSelfAgain /\ [][NextSelf]_vars

\* an accepted self-update request of an orchestrator attached to any of the
\* networks, or with any of the binds and mounts; the client stays connected
InitHelper ==
    /\ sse = IdleEvents
    /\ run = [r \in Runs |-> OffRun]
    /\ prodTag = OldImage
    /\ tempTag = "none"
    /\ approved = {}
    /\ \E nets \in OwnNetworks, binds \in BindLists, mounts \in MountLists :
          /\ nets = <<>> \/ (binds = <<>> /\ mounts = <<>>)
          /\ su = [IdleSelf EXCEPT !.pc = "authorize", !.authEnabled = TRUE,
                  !.isAdmin = TRUE, !.hasImage = TRUE, !.inDocker = TRUE,
                  !.writable = TRUE, !.hasName = TRUE, !.networks = nets,
                  !.binds = binds, !.mounts = mounts]
    /\ chk = IdleCheck

NextHelper ==
    \/ SuAuthorize
    \/ SuBody
    \/ SuOwnId
    \/ SuSocket
    \/ SuName
    \/ SuPullImage
    \/ SuInspectSelf
    \/ SuPullUpdater
    \/ SuCleanupUpdaters
    \/ SuCleanupStale
    \/ SuCreateNew
    \/ SuCreateUpdater
    \/ SuStartUpdater
    \/ SuRemoveUpdater
    \/ SuRemoveNew

SpecHelper == InitHelper /\ [][NextHelper]_vars

\* one request to the Docker events endpoint. The handler's own steps and the
\* timer are fair; what the Docker engine and the client do is not
InitEvents ==
    /\ run = [r \in Runs |-> OffRun]
    /\ prodTag = OldImage
    /\ tempTag = "none"
    /\ approved = {}
    /\ su = IdleSelf
    /\ chk = IdleCheck
    /\ \E e \in BOOLEAN : sse = [IdleEvents EXCEPT !.pc = "get", !.hasEnv = e]

NextEvents ==
    \/ EvGet
    \/ EvGetEnvironment
    \/ EvGetDockerEvents
    \/ EvReadChunk
    \/ EvReadDone
    \/ EvReadError
    \/ EvHeartbeat
    \/ EvClientDisconnect

SpecEvents ==
    /\ InitEvents /\ [][NextEvents]_vars
    /\ WF_vars(EvGet) /\ WF_vars(EvGetEnvironment)
    /\ WF_vars(EvGetDockerEvents) /\ WF_vars(EvHeartbeat)

(***************************************************************************)
(* Properties of the update run                                            *)
(***************************************************************************)
Done(r) == run[r].pc = "done"

Ops(t) == {t[i].op : i \in 1..Len(t)}

IsPrefix(a, b) == Len(a) <= Len(b) /\ \A i \in 1..Len(a) : a[i] = b[i]

\* C1: a safe-pull run that ends blocked or failed before promotion leaves the
\* production tag on the image id it resolved to before the run began,
\* whichever step ended the run.
C1_ProdTagAsBefore ==
    \A r \in Runs :
        (Done(r) /\ run[r].path = "safe" /\ ~run[r].promoted
            /\ run[r].status \in {"skipped", "failed"})
        => prodTag = run[r].prodBefore

\* C2: on the safe-pull path, outside the window between the end of pullImage
\* and the restoring tagImage call, the production tag points at the image the
\* container runs or at an image the gate approved.
C2_ProdTagVerified ==
    \A r \in Runs :
        (run[r].path = "safe" /\ run[r].pc \notin {"getId", "restore"})
        => prodTag \in {run[r].currentImageId} \cup approved

\* C3: a run that ends skipped, or that fails at pull or at scan, has issued no
\* stop, remove, create, network connect, start or startStack call and has
\* left the container as it was.
C3_UntouchedOnSkipOrEarlyFailure ==
    \A r \in Runs :
        (run[r].status = "skipped"
            \/ (run[r].status = "failed" /\ run[r].thrownAt \in {"pull", "scan"}))
        => /\ run[r].calls = {}
           /\ run[r].oldC = run[r].oldC0
           /\ run[r].newC = "absent"

C3_Witness ==
    \E r \in Runs :
        /\ Done(r) /\ run[r].status = "skipped" /\ run[r].gate = "blocked"
        /\ run[r].calls = {}

\* C4: while one run is between the end of its pull and its restoring tagImage
\* call, no step of another run changes the production tag or the temp tag.
C4_TagStepsBackToBack ==
    [][\A r \in Runs :
          (run[r].pc \in {"getId", "restore"} /\ run'[r] = run[r])
          => (prodTag' = prodTag /\ tempTag' = tempTag)]_vars

\* C5: a recreation that ends with neither the old nor a replacement container
\* present returned false and the run is recorded failed; no run is recorded
\* success or skipped with both containers absent.
C5_BothAbsentIsFailure ==
    \A r \in Runs :
        (run[r].oldC = "absent" /\ run[r].newC = "absent")
        => /\ run[r].status \notin {"success", "skipped"}
           /\ run[r].rcResult # "none" =>
                 (run[r].rcResult = "false" /\ run[r].status = "failed")

C5_Witness ==
    \E r \in Runs :
        /\ run[r].rcFailedAt = "create" /\ run[r].rcResult = "false"
        /\ run[r].oldC0 = "running"
        /\ run[r].oldC = "absent" /\ run[r].newC = "absent"
        /\ run[r].status = "failed"

\* the calls of a complete recreateContainer invocation, in order
ExpectedTrace(wasRunning, nets) ==
    <<[op |-> "list", net |-> 0], [op |-> "inspect", net |-> 0]>>
    \o (IF wasRunning THEN <<[op |-> "stop", net |-> 0]>> ELSE <<>>)
    \o <<[op |-> "remove", net |-> 0], [op |-> "create", net |-> 0]>>
    \o [i \in 1..nets |-> [op |-> "connect", net |-> i]]
    \o (IF wasRunning THEN <<[op |-> "start", net |-> 0]>> ELSE <<>>)

FatalSteps == {"list", "inspect", "stop", "remove", "create", "start"}

\* C6: recreateContainer issues inspect, stop, remove, create, the reconnects
\* and start in that order, each at most once; a failure of inspect, stop,
\* remove, create or start is the last call of the invocation, which reports
\* failure.
C6_RecreateInOrder ==
    \A r \in Runs :
        LET t == run[r].trace
            e == ExpectedTrace(run[r].wasRunning, run[r].nets)
        IN  /\ IsPrefix(t, e)
            /\ run[r].rcResult = "true" => t = e
            /\ run[r].rcFailedAt \in FatalSteps =>
                  /\ t # <<>> /\ t[Len(t)].op = run[r].rcFailedAt
                  /\ run[r].rcResult = "false"

C6_Witness ==
    \E r \in Runs :
        /\ run[r].rcResult = "true" /\ run[r].wasRunning /\ run[r].nets = MaxNets
        /\ Len(run[r].trace) = 6 + MaxNets

\* C7: inspection has succeeded before stop or remove is called, nothing is
\* listed or inspected after the removal, and when listing or inspection
\* fails no destructive call is issued and the old container stays as it was.
C7_InspectBeforeDestroy ==
    \A r \in Runs :
        LET t == run[r].trace
        IN  /\ \A j \in 1..Len(t) :
                  t[j].op \in {"stop", "remove"} =>
                      /\ \E i \in 1..(j - 1) : t[i].op = "inspect"
                      /\ run[r].rcFailedAt # "inspect"
            /\ \A i, j \in 1..Len(t) :
                  (t[i].op = "remove" /\ i < j) => t[j].op \notin {"list", "inspect"}
            /\ run[r].rcFailedAt \in {"list", "inspect", "notfound"} =>
                  /\ Ops(t) \cap Mutating = {}
                  /\ run[r].oldC = run[r].oldC0
                  /\ run[r].newC = "absent"

C7_Witness ==
    \E r \in Runs :
        /\ Done(r) /\ run[r].rcFailedAt = "inspect" /\ run[r].rcResult = "false"
        /\ run[r].oldC = "running"

(***************************************************************************)
(* Properties of the self-update request                                   *)
(***************************************************************************)
RECURSIVE Count(_, _)
Count(seq, ev) ==
    IF seq = <<>> THEN 0
    ELSE (IF Head(seq) = ev THEN 1 ELSE 0) + Count(Tail(seq), ev)

Has(seq, ev) == \E i \in 1..Len(seq) : seq[i] = ev

\* C8 as stated: after any failed run no replacement container created by that
\* run remains.
C8_NoReplacementAfterFailure ==
    (su.pc = "done" /\ su.failed) => su.replacement = "absent"

\* C8, amended: once the id of the replacement has been recorded, a failed run
\* has requested its forced removal by the time the stream closes, and the
\* replacement is gone whenever that removal succeeded.
C8_RemovalRequested ==
    ((su.pc = "done" \/ su.streamClosed) /\ su.failed /\ su.newContainerId # "none")
    => /\ su.removeAttempted
       /\ su.removeOk => su.replacement = "absent"

C8_Witness ==
    /\ su.pc = "done" /\ su.failed /\ su.helper = "created"
    /\ su.removeAttempted /\ su.removeOk /\ su.replacement = "absent"

OrchestratorSteps ==
    {"pulling_image", "building_config", "pulling_updater", "creating_container",
     "launching_updater"}

LaunchedLast(seq) ==
    Has(seq, LaunchedEv) =>
        /\ seq[Len(seq)] = LaunchedEv
        /\ Count(seq, LaunchedEv) = 1
        /\ ~Has(seq, ErrorEv)
        /\ su.helper = "running"

\* C9: 'launched' is sent at most once, only after the helper was started, and
\* nothing is sent or enqueued after it; step events name the orchestrator's
\* own five steps only; a finished run has sent exactly one of 'launched' and
\* 'error'.
C9_LaunchedIsLast ==
    /\ LaunchedLast(su.sent)
    /\ LaunchedLast(su.events)
    /\ \A i \in 1..Len(su.sent) :
          su.sent[i].event = "step" => su.sent[i].step \in OrchestratorSteps
    /\ (su.pc = "done" /\ su.response = "stream") =>
          Count(su.sent, LaunchedEv) + Count(su.sent, ErrorEv) = 1

C9_Witness ==
    /\ su.pc = "done" /\ su.helper = "running"
    /\ su.events # <<>> /\ su.events[Len(su.events)] = LaunchedEv

SideEffects(s) == s.calls \ {"inspect"}

Rejected(s) == s.response \in {"e400", "e403", "e500"}

\* C10 as stated: a caller who is not an admin, a missing newImage, no
\* container, a read-only socket or an unknown name reject the request before
\* any pull and before any container is created, stopped or removed.
C10_RejectedBeforeSideEffects ==
    (su.pc # "off" /\ (~su.isAdmin \/ ~su.hasImage \/ ~su.inDocker
                        \/ ~su.writable \/ ~su.hasName))
    => /\ SideEffects(su) = {}
       /\ su.response # "stream"
       /\ su.pc = "done" => Rejected(su)

\* C10, amended: the same, the admin check applying only when authentication
\* is enabled.
C10_RejectedWhenAuthEnabled ==
    (su.pc # "off" /\ ((su.authEnabled /\ ~su.isAdmin) \/ ~su.hasImage
                        \/ ~su.inDocker \/ ~su.writable \/ ~su.hasName))
    => /\ SideEffects(su) = {}
       /\ su.response # "stream"
       /\ su.pc = "done" => Rejected(su)

C10_Witness ==
    /\ su.pc = "done" /\ su.response = "e400" /\ ~su.writable
    /\ su.hasImage /\ su.inDocker /\ SideEffects(su) = {}

(***************************************************************************)
(* Properties of the execution ledger and of error handling                *)
(***************************************************************************)
Terminal == {"success", "failed", "skipped"}

C12_SingleTerminalWrite ==
    [][\A r \in Runs :
          run[r].status \in Terminal =>
              /\ run'[r].status = run[r].status
              /\ run'[r].reason = run[r].reason
              /\ run'[r].writes = run[r].writes]_vars

\* the steps of runContainerUpdate that are calls of the container engine
EngineSteps ==
    {"list", "inspect", "registry", "pull", "getId", "restore", "tempTag",
     "removeBlocked", "removeTemp", "promote"}

\* an exception leaves runContainerUpdate only from the failure notification,
\* after 'failed' was written; an engine call that threw has been turned into
\* a 'failed' status, and inside recreateContainer into the result false
EngineErrorsCaught(r) ==
    /\ run[r].escaped => (Done(r) /\ run[r].status = "failed")
    /\ run[r].thrownAt \in EngineSteps =>
          (run[r].status = "failed" \/ run[r].pc = "scanFail")
    /\ run[r].rcFailedAt \in FatalSteps =>
          (run[r].rcResult = "false" /\ run[r].status = "failed")

\* C13 as stated: no exception of an engine call (list, inspect, registry
\* check, pull, image lookup, tag, image removal, stop, remove, create,
\* network connect, start, compose up) escapes; each one, network connect
\* included, ends in a 'failed' or 'skipped' status or a false result.
C13_EveryEngineErrorFails ==
    \A r \in Runs :
        /\ EngineErrorsCaught(r)
        /\ run[r].warned # {} =>
              (run[r].rcResult # "true" /\ run[r].status # "success")

\* C13, amended: no exception of an engine call escapes; each one ends in a
\* 'failed' status or a false result, except a failed connect of a secondary
\* network, which is tolerated and leaves the result as it would have been.
C13_EngineErrorsCaught ==
    \A r \in Runs :
        /\ EngineErrorsCaught(r)
        /\ (run[r].warned # {} /\ run[r].rcResult = "false") =>
              run[r].rcFailedAt \in FatalSteps

C13_Witness ==
    \E r \in Runs :
        /\ Done(r) /\ run[r].thrownAt = "removeBlocked"
        /\ run[r].status = "failed" /\ ~run[r].escaped

\* C14: whenever the gate returned blocked, the status the run ends with is
\* 'skipped' with the block reason, and the temp-tagged image was removed
\* before that status was written.
C14_BlockedEndsSkipped ==
    \A r \in Runs :
        /\ (Done(r) /\ run[r].gate = "blocked") =>
              (run[r].status = "skipped" /\ run[r].reason = "blocked")
        /\ run[r].reason = "blocked" => tempTag # run[r].newImageId

(***************************************************************************)
(* Properties of the digest, registry and router branches                  *)
(***************************************************************************)
\* for a digest-pinned reference the run issues no registry check and no pull
\* and the check answers updateAvailable=false without a registry query
PinnedNeverChecked ==
    /\ \A r \in Runs :
          IsDigestBasedImage(run[r].imageKind) =>
              /\ run[r].registryChecks = 0 /\ run[r].pulls = 0
              /\ Done(r) /\ run[r].status = "skipped"
    /\ chk.image = "digest" =>
          /\ chk.registryQueries = 0
          /\ chk.response = "json" => ~chk.updateAvailable

\* C15 as stated: for every digest-pinned reference the run issues no registry
\* check and no pull and ends 'skipped' with the digest reason, and the check
\* reports updateAvailable=false without querying the registry.
C15_PinnedSkippedAsDigest ==
    /\ PinnedNeverChecked
    /\ \A r \in Runs :
          IsDigestBasedImage(run[r].imageKind) => run[r].reason = "digest"

\* C15, amended: the same, the recorded reason being the system-container one
\* when the pinned image is that of a system container.
C15_PinnedSkipped ==
    /\ PinnedNeverChecked
    /\ \A r \in Runs :
          IsDigestBasedImage(run[r].imageKind) =>
              run[r].reason = IF IsSystemContainer(run[r].imageKind)
                              THEN "system" ELSE "digest"

C15_Witness ==
    /\ \E r \in Runs : Done(r) /\ run[r].imageKind = "digest"
                          /\ run[r].status = "skipped"
    /\ chk.pc = "done" /\ chk.image = "digest" /\ chk.response = "json"
    /\ chk.error = "none" /\ "inspect" \in chk.calls

\* the reason recorded for a registry result that is not an update
SkipReason(res) ==
    CASE res = "local" -> "local"
      [] res = "error" -> "registryError"
      [] OTHER -> "uptodate"

\* C16: when the registry check reports a local image, a registry error or no
\* update, the run ends 'skipped' with the matching reason, never 'failed',
\* and pulls nothing; the registry check is invoked once per run.
C16_NoUpdateIsSkipped ==
    \A r \in Runs :
        /\ run[r].registryChecks <= 1
        /\ run[r].registry # "none" => run[r].registryChecks = 1
        /\ run[r].registry \in {"local", "error", "uptodate"} =>
              /\ Done(r) /\ run[r].status = "skipped"
              /\ run[r].reason = SkipReason(run[r].registry)
              /\ run[r].pulls = 0 /\ run[r].writes = 1
              /\ prodTag = run[r].prodBefore

C16_Witness ==
    \E r \in Runs :
        /\ Done(r) /\ run[r].registry = "error" /\ run[r].status = "skipped"
        /\ run[r].registryChecks = 1 /\ run[r].shouldScan

\* C17: a container whose compose definition is known is updated by
\* startStack alone: recreateContainer is never invoked for it, and
\* updateStackContainer signals the fallback only for a definition not found.
C17_KnownStackNeverRecreated ==
    \A r \in Runs :
        run[r].stackDef = "known" =>
            /\ "startStack" \in run[r].calls
            /\ run[r].trace = <<>> /\ run[r].rcResult = "none"
            /\ run[r].pc \notin {"rcList", "rcInspect", "rcStop", "rcRemove",
                                  "rcCreate", "rcConnect", "rcStart"}

\* C18: for a container with the compose label whose definition is not found,
\* startStack is never called, recreateContainer is invoked instead, and the
\* warning that compose-specific settings may not be preserved has been logged
\* before the recreation issues its first call.
C18_UnknownStackFallsBack ==
    \A r \in Runs :
        /\ run[r].stackDef = "unknown" =>
              /\ run[r].isStack /\ "startStack" \notin run[r].calls
              /\ run[r].fallbackWarned
              /\ run[r].pc = "rcList" \/ run[r].trace # <<>>
        /\ (run[r].isStack /\ run[r].trace # <<>>) => run[r].fallbackWarned

C18_Witness ==
    \E r \in Runs :
        /\ Done(r) /\ run[r].stackDef = "unknown" /\ run[r].fallbackWarned
        /\ run[r].rcResult = "true" /\ run[r].status = "success"

\* the secondary networks for which a connect call was issued
Attempted(t) == {t[i].net : i \in {j \in 1..Len(t) : t[j].op = "connect"}}

\* C19: a failed connect of a secondary network is logged as a warning naming
\* that network and stops nothing: every remaining network is still attempted,
\* the container is started if the old one ran, and the recreation can return
\* true; only a later fatal step makes it return false.
C19_ConnectFailureTolerated ==
    \A r \in Runs :
        LET t == run[r].trace
        IN  /\ run[r].warned \cup run[r].connected
                  = Attempted(t) \ (IF run[r].pc = "rcConnect"
                                    THEN {run[r].netIdx} ELSE {})
            /\ run[r].warned \cap run[r].connected = {}
            /\ (run[r].warned # {} /\ run[r].pc # "rcConnect") =>
                  /\ Attempted(t) = 1..run[r].nets
                  /\ run[r].wasRunning =>
                        (run[r].pc = "rcStart" \/ "start" \in Ops(t))
                  /\ run[r].rcFailedAt \in {"none", "start"}
                  /\ run[r].rcFailedAt = "none" =>
                        (run[r].pc = "rcStart" \/ run[r].rcResult = "true")

C19_Witness ==
    \E r \in Runs :
        /\ Done(r) /\ run[r].warned = {1} /\ run[r].connected = {2}
        /\ run[r].wasRunning /\ run[r].newC = "running"
        /\ run[r].rcResult = "true" /\ run[r].status = "success"

(***************************************************************************)
(* Properties of the self-update progress stream                           *)
(***************************************************************************)
\* the number of send() calls made by the time the pipeline is at a step
SentBy(pc) ==
    CASE pc = "pullImage" -> 2
      [] pc = "inspectSelf" -> 6
      [] pc = "pullUpdater" -> 10
      [] pc \in {"cleanupUpdaters", "cleanupStale", "createNew"} -> 14
      [] pc \in {"createUpdater", "startUpdater", "removeUpdater"} -> 17
      [] OTHER -> 0

PipelineCalls == {"inspect", "pull", "create", "createUpdater", "startUpdater"}

\* the log events of the error lines the pulls' progress streams held
ErrorLines(s) == Cardinality(s.notPulled)

\* C20: whether or not the client is still connected, the pipeline goes
\* through every step: each step makes its send() calls, events the client
\* misses are dropped and nothing else changes, a finished run has either
\* started the helper after all five steps or failed with the removal of the
\* pre-created container requested, and the stream is closed by the handler
\* only while the client is there.
C20_DisconnectChangesNothing ==
    su.response = "stream" =>
        /\ IsPrefix(su.events, su.sent)
        /\ (su.connected /\ ~su.controllerClosed) => su.events = su.sent
        /\ su.pc \notin {"done", "removeNew"} =>
              (~su.failed /\ Len(su.sent) = SentBy(su.pc) + ErrorLines(su))
        /\ su.pc = "removeNew" => (su.failed /\ CleanupNeeded(su))
        /\ su.pc = "done" =>
              \/ /\ ~su.failed /\ su.helper = "running"
                 /\ PipelineCalls \subseteq su.calls
                 /\ Len(su.sent) = 21 + ErrorLines(su)
                 /\ su.sent[Len(su.sent)] = LaunchedEv
              \/ /\ su.failed /\ su.sent[Len(su.sent)] = ErrorEv
                 /\ CleanupNeeded(su) => su.removeAttempted
        /\ su.streamClosed => (su.pc = "done" /\ ~su.controllerClosed)

C20_Witness ==
    /\ su.pc = "done" /\ ~su.connected /\ su.controllerClosed
    /\ Len(su.events) = 2 /\ su.failed /\ su.helper = "created"
    /\ su.removeAttempted /\ su.removeOk /\ ~Has(su.events, ErrorEv)

(***************************************************************************)
(* Properties of the outcome of a run and of the gate                      *)
(***************************************************************************)
\* the image step of a run succeeded: a plain pull without scanning; pull,
\* approval by the gate and promotion with scanning
ImageStepOk(r) ==
    \/ run[r].path = "simple" /\ run[r].pulls = 1 /\ run[r].thrownAt # "pull"
    \/ run[r].path = "safe" /\ run[r].gate = "allowed" /\ run[r].promoted

\* the update step reported success
UpdateStepOk(r) == run[r].stackResult = "true" \/ run[r].rcResult = "true"

\* C21: a run ends recorded 'success' if and only if an update was available,
\* the image step succeeded and the update step reported success; without
\* scanning the run tags nothing, scans nothing and removes no temp image.
C21_SuccessIffAllStepsOk ==
    \A r \in Runs :
        /\ Done(r) =>
              (run[r].status = "success"
                  <=> (run[r].registry = "update" /\ ImageStepOk(r)
                          /\ UpdateStepOk(r)))
        /\ run[r].path = "simple" =>
              /\ run[r].newImageId = "none" /\ run[r].scanSummary = NoSummary
              /\ ~run[r].promoted /\ run[r].gate = "none"
              /\ tempTag = "none"

\* the decision the gate has recorded for a run
Decision(r) ==
    IF ShouldBlockUpdate(run[r].criteria, run[r].scanSummary,
                         run[r].currentScanSummary)
    THEN "blocked" ELSE "allowed"

C23_PromotionAfterApproval ==
    \A r \in Runs :
        (run[r].pc = "promote" \/ run[r].promoted) =>
            /\ run[r].gate = "allowed"
            /\ run[r].scanSummary # NoSummary
            /\ run[r].newImageId \in approved

\* C24: when safe-pull runs on one image reference interleave, the id a run
\* reads after its own pull is that of the newly pulled image, never the
\* known-good image another run has restored to the production tag: the image
\* a run scans and promotes differs from the one its container runs.
C24_NewImageIsPulledImage ==
    \A r \in Runs :
        run[r].newImageId # "none" =>
            /\ run[r].newImageId = NewImage
            /\ run[r].newImageId # run[r].currentImageId

(***************************************************************************)
(* Properties of self-update requests that follow one another              *)
(***************************************************************************)
\* C25: after a self-update request has launched its helper, no other request
\* handled by the orchestrator stops or removes that helper or the
\* replacement container handed to it.
C25_LaunchedRunUndisturbed ==
    /\ su.priorHelper \in {"absent", "running"}
    /\ su.priorReplacement \in {"absent", "created"}

(***************************************************************************)
(* Properties of the temp tag                                              *)
(***************************************************************************)
\* C26: at the end of every run that created the temp tag, whether it ended
\* approved, blocked, or failed at scan or at promotion, the removal of the
\* temp-tagged image has been attempted, and the temp tag is gone unless that
\* removal failed.
C26_TempRemovalAttempted ==
    \A r \in Runs :
        (Done(r) /\ run[r].tempMade) =>
            /\ run[r].removal # "none"
            /\ run[r].removal = "ok" => tempTag = "none"

(***************************************************************************)
(* Properties of the replacement's creation spec                           *)
(***************************************************************************)
\* C27: for every self-inspection input the creation spec built for the
\* replacement holds no network attachment (no NetworkingConfig and no network
\* selected for attachment at creation) and has Hostname and MacAddress
\* removed.
C27_NoNetworkAtCreation ==
    su.createConfig.keys # {} =>
        /\ su.createConfig.keys
              \cap {"NetworkingConfig", "Hostname", "MacAddress"} = {}
        /\ su.createConfig.networkMode = "none"

(***************************************************************************)
(* Properties of the recreation's networks and of a failed recreation      *)
(***************************************************************************)
\* C28: every connectContainerToNetwork call of recreateContainer is issued
\* after createContainer returned and before the replacement is started, and
\* names a network that was not classified as primary.
C28_SecondaryConnectedBetween ==
    \A r \in Runs :
        LET t == run[r].trace
        IN  /\ \A j \in 1..Len(t) :
                  t[j].op = "connect" =>
                      /\ \E i \in 1..(j - 1) : t[i].op = "create"
                      /\ \A i \in 1..(j - 1) : t[i].op # "start"
                      /\ t[j].net \in 1..Len(run[r].netNames)
                      /\ run[r].netNames[t[j].net] \notin run[r].primaryNets
            /\ run[r].pc = "rcConnect" => run[r].newC = "created"

C28_Witness ==
    \E r \in Runs :
        /\ Done(r) /\ run[r].rcResult = "true" /\ run[r].wasRunning
        /\ run[r].primaryNets = {BridgeNet}
        /\ run[r].netNames = <<1, 2>> /\ run[r].connected = {1, 2}

\* C29: when recreateContainer returned false and the old container still
\* exists, the old container is in the running state it had at inspection: a
\* container that was running is not left stopped.
C29_FailedRecreateKeepsRunning ==
    \A r \in Runs :
        (run[r].rcResult = "false" /\ run[r].oldC # "absent")
        => run[r].oldC = run[r].oldC0

(***************************************************************************)
(* The order of the self-update pipeline                                   *)
(***************************************************************************)
\* the step events of a complete pipeline, in order
ExpectedStepEvents ==
    <<StepEv("pulling_image", "active"), StepEv("pulling_image", "completed"),
      StepEv("building_config", "active"), StepEv("building_config", "completed"),
      StepEv("pulling_updater", "active"), StepEv("pulling_updater", "completed"),
      StepEv("creating_container", "active"),
      StepEv("creating_container", "completed"),
      StepEv("launching_updater", "active"),
      StepEv("launching_updater", "completed")>>

IsStepEv(ev) == ev.event = "step"

\* the step events sent so far are the first ones of the complete pipeline:
\* the steps come in the fixed order, 'active' before 'completed'
StepEventsInOrder ==
    LET steps == SelectSeq(su.sent, IsStepEv)
    IN  /\ Len(steps) <= Len(ExpectedStepEvents)
        /\ steps = SubSeq(ExpectedStepEvents, 1, Len(steps))

\* C30: the steps of the self-update pipeline run in the fixed order, 'active'
\* before 'completed' for each, and a step begins only after the one before it
\* succeeded: after a pull that failed, the step that follows it is not begun.
C30_StepsInOrderAfterSuccess ==
    /\ StepEventsInOrder
    /\ Has(su.sent, StepEv("building_config", "active"))
          => "pulling_image" \notin su.notPulled
    /\ Has(su.sent, StepEv("creating_container", "active"))
          => "pulling_updater" \notin su.notPulled

(***************************************************************************)
(* The environment handed to the helper                                    *)
(***************************************************************************)
EnvValues(env, key) == {env[i].value : i \in {j \in 1..Len(env) : env[j].key = key}}

OptionNets(nets) == {i \in 1..Len(nets) : NetOpts(nets[i].conf) # <<>>}

\* C31: the helper is created with OLD_CONTAINER_ID the own container id,
\* NEW_CONTAINER_ID the id of the replacement of this run, CONTAINER_NAME the
\* original name, every network's name in NETWORKS, and for every network
\* with static addresses or aliases exactly these in the variable that
\* carries this network's options.
C31_HelperEnvironment ==
    "createUpdater" \in su.calls =>
        LET env == su.updaterEnv
            nets == su.networks
        IN  /\ EnvValues(env, Key("OLD_CONTAINER_ID")) = {OwnContainerId}
            /\ EnvValues(env, Key("NEW_CONTAINER_ID")) = {"new"}
            /\ su.newContainerId = "new" /\ "create" \in su.calls
            /\ EnvValues(env, Key("CONTAINER_NAME")) = {OwnContainerName}
            /\ nets # <<>> =>
                  EnvValues(env, Key("NETWORKS")) =
                      {[i \in 1..Len(nets) |-> nets[i].name]}
            /\ \A i \in OptionNets(nets) :
                  EnvValues(env, OptsKey(nets[i].name)) = {NetOpts(nets[i].conf)}

\* C32: two different networks that both have options get different
\* NETWORK_OPTS_* variable names.
C32_DistinctOptionNames ==
    \A i, j \in OptionNets(su.networks) :
        (su.networkEnvVars # <<>> /\ i # j)
        => OptsKey(su.networks[i].name) # OptsKey(su.networks[j].name)

(***************************************************************************)
(* The split of the attachments into primary and secondary                 *)
(***************************************************************************)
\* every attachment that is not primary is on the reconnection list once
ReconnectListExact(r) ==
    LET names == run[r].netNames
    IN  /\ {names[i] : i \in 1..Len(names)} = run[r].attached \ run[r].primaryNets
        /\ \A i, j \in 1..Len(names) : names[i] = names[j] => i = j

\* C33: of the attachments of an inspected container exactly one is classified
\* primary, or none when the network mode is host or none, and every other
\* attachment is on the reconnection list exactly once.
C33_ExactlyOnePrimary ==
    \A r \in Runs :
        run[r].attached # {} =>
            /\ \/ Cardinality(run[r].primaryNets) = 1
               \/ run[r].primaryNets = {} /\ run[r].networkMode = HostNet
            /\ ReconnectListExact(r)

(***************************************************************************)
(* The creation spec of the replacement                                    *)
(***************************************************************************)
\* the destinations bound by the entries of a bind list
BindTargets(binds) ==
    {binds[i][IF Len(binds[i]) = 1 THEN 1 ELSE 2] : i \in 1..Len(binds)}

C35_StartIffWasRunning ==
    \A r \in Runs :
        LET ops == Ops(run[r].trace)
        IN  /\ run[r].rcResult # "none" \/ ops # {} =>
                  (run[r].wasRunning => run[r].oldC0 = "running")
            /\ "inspect" \in ops /\ run[r].rcFailedAt # "inspect" =>
                  (run[r].wasRunning <=> run[r].oldC0 = "running")
            /\ ops \cap {"stop", "start"} # {} => run[r].wasRunning
            /\ run[r].rcResult = "true" =>
                  IF run[r].wasRunning
                  THEN {"stop", "start"} \subseteq ops /\ run[r].newC = "running"
                  ELSE ops \cap {"stop", "start"} = {} /\ run[r].newC = "created"

C35_Witness ==
    \E r \in Runs :
        /\ Done(r) /\ run[r].rcResult = "true" /\ run[r].oldC0 = "stopped"
        /\ ~run[r].wasRunning /\ run[r].newC = "created"
        /\ run[r].oldC = "absent" /\ run[r].status = "success"

(***************************************************************************)
(* The current image's scan summary                                        *)
(***************************************************************************)
\* C36: the cache is consulted for the running image's summary only under the
\* criterion more_than_current and before the gate; the running image is
\* scanned only after the cache held nothing; under every other criterion the
\* gate is evaluated without a current summary, with no lookup and no scan.
C36_CurrentSummaryOnlyForMoreThanCurrent ==
    \A r \in Runs :
        /\ run[r].cacheLookup # "none" =>
              (run[r].criteria = "more_than_current" /\ run[r].scanSummary # NoSummary)
        /\ run[r].currentScanned => run[r].cacheLookup = "miss"
        /\ run[r].currentScanSummary # NoSummary =>
              (run[r].cacheLookup = "hit" \/ run[r].currentScanned)
        /\ run[r].gate # "none" =>
              IF run[r].criteria = "more_than_current"
              THEN run[r].cacheLookup # "none"
              ELSE /\ run[r].currentScanSummary = NoSummary
                   /\ run[r].cacheLookup = "none" /\ ~run[r].currentScanned

C36_Witness ==
    \E r \in Runs :
        /\ run[r].gate = "allowed" /\ run[r].criteria = "more_than_current"
        /\ run[r].cacheLookup = "miss" /\ run[r].currentScanned
        /\ run[r].currentScanSummary # NoSummary

(***************************************************************************)
(* The aliases of the secondary networks                                   *)
(***************************************************************************)
Occurrences(list, x) == Cardinality({i \in 1..Len(list) : list[i] = x})

Compound(c) == c.project \o <<"-">> \o c.service

IsCompose(meta) == meta.compose.project # <<>> /\ meta.compose.service # <<>>

\* the aliases the inspection lists for the attachment
Listed(meta) == IF Len(meta.aliases) > 0 THEN meta.aliases ELSE meta.dnsNames

\* C37 as stated: for a compose container the alias list of every secondary
\* network holds the service name and project-service exactly once each, and
\* no alias list holds the old container's id or its short id.
C37_ComposeAliasesExactlyOnce ==
    \A r \in Runs : \A i \in 1..Len(run[r].secondaryAliases) :
        LET list == run[r].secondaryAliases[i]
            meta == run[r].netMeta
        IN  /\ IsCompose(meta) =>
                  /\ Occurrences(list, meta.compose.service) = 1
                  /\ Occurrences(list, Compound(meta.compose)) = 1
            /\ ~Includes(list, ContainerId)
            /\ ~Includes(list, Substring(ContainerId, 0, ShortIdLen))

\* C37 amended: for a compose container the alias list of every secondary
\* network holds the service name and project-service, each as often as the
\* inspection listed it and once when the inspection did not list it; no
\* alias list holds the old container's id or its short id.
C37_ComposeAliasesPresent ==
    \A r \in Runs : \A i \in 1..Len(run[r].secondaryAliases) :
        LET list == run[r].secondaryAliases[i]
            meta == run[r].netMeta
            expected(x) == IF Occurrences(Listed(meta), x) = 0 THEN 1
                           ELSE Occurrences(Listed(meta), x)
        IN  /\ IsCompose(meta) =>
                  /\ Occurrences(list, meta.compose.service)
                        = expected(meta.compose.service)
                  /\ Occurrences(list, Compound(meta.compose))
                        = expected(Compound(meta.compose))
            /\ ~Includes(list, ContainerId)
            /\ ~Includes(list, Substring(ContainerId, 0, ShortIdLen))

C37_Witness ==
    \E r \in Runs :
        /\ Done(r) /\ run[r].rcResult = "true" /\ run[r].connected = {1}
        /\ IsCompose(run[r].netMeta)
        /\ Includes(run[r].netMeta.aliases, Substring(ContainerId, 0, ShortIdLen))
        /\ ~Includes(run[r].netMeta.aliases, run[r].netMeta.compose.service)
        /\ run[r].secondaryAliases[1] =
              <<OtherAlias, ServiceName, Compound(run[r].netMeta.compose)>>

(***************************************************************************)
(* The report of the self-update check                                     *)
(***************************************************************************)
ReadCalls == {"inspect", "imageInspect", "registry"}

\* the check found a newer image: a tag-based image with a local digest, and
\* a digest of the registry that is none of the local ones
NewerInRegistry ==
    /\ chk.image = "tag"
    /\ LocalDigests(chk.repoDigests) # {}
    /\ chk.registryDigest \notin {"none"} \cup LocalDigests(chk.repoDigests)

ReportedLocal == "isLocalImage" \in chk.body

\* what C38 says apart from the errors: updateAvailable is true exactly for a
\* newer image in the registry, an image without local digests is reported as
\* local without a registry query, and only reading calls are issued
CheckReport ==
    /\ chk.pc = "done" =>
          (("updateAvailable" \in chk.body /\ chk.updateAvailable) <=> NewerInRegistry)
    /\ ReportedLocal =>
          /\ LocalDigests(chk.repoDigests) = {} /\ chk.registryQueries = 0
          /\ ~chk.updateAvailable /\ chk.error = "none"
    /\ (chk.pc = "done" /\ "registry" \in chk.calls) =>
          LocalDigests(chk.repoDigests) # {}
    /\ chk.calls \subseteq ReadCalls

C39_SystemContainerSkipped ==
    \A r \in Runs :
        run[r].imageKind \in {"system", "systemDigest"} =>
            /\ run[r].pc \in {"done", "notifyFailed"}
            /\ run[r].status = "skipped" /\ run[r].reason = "system"
            /\ run[r].registryChecks = 0 /\ run[r].pulls = 0
            /\ run[r].calls = {} /\ run[r].trace = <<>>
            /\ ~run[r].tempMade /\ ~run[r].promoted /\ run[r].path = "none"
            /\ prodTag = run[r].prodBefore /\ tempTag = "none"
            /\ run[r].oldC = run[r].oldC0 /\ run[r].newC = "absent"

C39_Witness ==
    \E r \in Runs :
        /\ Done(r) /\ run[r].imageKind = "system" /\ run[r].status = "skipped"
        /\ run[r].writes = 1

\* the enqueued events start with 'connected'
ConnectedFirst == sse.queue # <<>> => Head(sse.queue) = "connected"

\* a step taken with the stream closed enqueues nothing
NothingAfterClose == sse.stream = "closed" => sse'.queue = sse.queue

\* the client has gone away, or the Docker event stream ended or failed
StreamOver == sse.cancelled \/ sse.ended \in {"done", "error"}

\* the heartbeat timer is cleared and the stream was closed once
CleanedUp ==
    sse.heartbeatInterval = "cleared" /\ sse.stream = "closed" /\ sse.closes = 1

\* C40 in parts: the two safety statements, the clean-up after the end of the
\* Docker event stream, and the clean-up after a client disconnect
C40_ConnectedFirst == [] ConnectedFirst
C40_NothingAfterClose == [][NothingAfterClose]_vars
C40_CleanupAfterStreamEnd == (sse.ended \in {"done", "error"}) ~> CleanedUp
C40_CleanupAfterDisconnect == sse.cancelled ~> CleanedUp

\* C40: on the events stream 'connected' is the first event enqueued, nothing
\* is enqueued once the controller is closed, and after a client disconnect or
\* the end or failure of the Docker event stream the heartbeat timer is
\* eventually cleared and the controller has been closed exactly once.
C40_EventStreamLifecycle ==
    /\ [] ConnectedFirst
    /\ [][NothingAfterClose]_vars
    /\ StreamOver ~> CleanedUp
====
